---------------------------- MODULE Spec2Model ----------------------------
(***************************************************************************)
(* A model of the geometric backbone of diffusion_edf: the radial basis    *)
(* layer (equiformer/gaussian_rbf.py), the Equiformer / Pooling /          *)
(* Radius-Graph / Down blocks and the field extractor (block.py).          *)
(*                                                                         *)
(* Real numbers are exact rationals [n |-> numerator, d |-> denominator]   *)
(* kept in lowest terms with d > 0.  Feature vectors are one scalar        *)
(* channel wide and integer valued.  Each component has its own            *)
(* specification (SpecRbf, SpecConstruct, ...) over its own group of       *)
(* variables; the other groups stay at their idle values.                  *)
(***************************************************************************)
EXTENDS Integers, Sequences, FiniteSets, TLC

VARIABLES
    \* ---- GaussianRadialBasisLayer (gaussian_rbf.py)
    rbf_pc,        \* "idle" (constructed, never called) | "done" (forward returned)
    cutoff,        \* self.cutoff, in length units
    num_basis,     \* self.num_basis
    soft_cutoff_on,\* self.soft_cutoff
    dist,          \* the distance of the last forward call, in length units
    win,           \* soft_square_cutoff(dist / cutoff) of the last call
    rbf_out,       \* the last call's output, one rational per channel
    rbf_calls,     \* the number of forward calls so far
    prev_dist,     \* the distance of the call before the last
    prev_win,      \* its window value
    \* ---- construction of a block (the __init__ methods of block.py)
    con_pc,        \* "start" | "loop" (DownBlock's for s in range(n_scales))
                   \* | "constructed" | "raised"
    target,        \* the class being constructed
    args,          \* the constructor's arguments
    con_err,       \* the exception raised, or NoError
    con_obj,       \* the constructed Equiformer / Pooling / Radius-Graph block
    scale_s,       \* DownBlock.__init__: the loop variable s
    radius_sq,     \* DownBlock.__init__: the local radius, squared
    radius_list_sq,\* DownBlock.radius_list, every entry squared
    layers,        \* DownBlock.layers
    layer_scale,   \* for every entry of layers, the s it was appended at
    \* ---- DownBlock.forward
    fw_pc,         \* "loop" | "returned"
    fw_input,      \* the call's input: the node count of every batch group
    node_count,    \* the local (node_feature, node_coord, batch), as counts
    fw_i,          \* the position in self.layers
    outputs,       \* the local outputs
    \* ---- EdfExtractor.forward
    x_pc,          \* "loop" | "returned"
    x_n,           \* the loop variable n, from 1
    x_scales,      \* self.n_scales
    x_params,      \* the parameters of pre_layers[n]
    x_cutoffs,     \* self.cutoffs
    x_proj,        \* the parameters of self.proj
    query_coord,   \* the query points
    query_batch,   \* their batch indices
    acc,           \* the local node_feature_dst, the accumulator
    contrib,       \* what the last scale's block returned
    attn,          \* what that block's attention layer returned
    x_edges,       \* the last scale's edges, (source, destination) pairs
    x_clouds,      \* the nodes of the scales processed so far
    x_out,         \* the returned features
    \* ---- two forward passes of one PoolingBlock on one input
    p_pc,          \* "ready" (constructed) | "off"
    p_args,        \* the constructor's arguments
    p_block,       \* the constructed PoolingBlock
    p_params,      \* the parameters and modules of its Equiformer block
    training,      \* torch.nn.Module.training
    p_cloud,       \* the input: node_feature, node_coord, batch
    p_starts,      \* per pass, the start index FPS took in every batch group
    p_outs,        \* per pass, what forward returned
    \* ---- QueryModel.forward (query_model.py), the query index
    q_pc,          \* "start" | "queried" (_get_init_query_pos returned)
                   \* | "encoded"
    q_n_scales,    \* self.n_scales
    q_det,         \* self.deterministic
    q_node_coord,  \* node_coord of the nodes of all scales
    q_node_index,  \* node_batch_n_scale
    q_starts,      \* the start index fps took in every batch group
    q_coord,       \* query_coord
    q_batch,       \* query_batch
    q_index,       \* query_batch_n_scale, one row per scale
    \* ---- a forward call of a Radius-Graph block, on values
    g_pc,          \* "start" | "loop" (for block, radial_basis_fn in zip(...))
                   \* | "returned"
    g_r,           \* self.r
    g_params,      \* the parameters of self.blocks, one record per block
    g_cloud,       \* the call's node_feature, node_coord and batch
    g_graph,       \* edge_src, edge_dst, edge_attr, edge_length and degree
    g_graph_calls, \* the number of calls of self.radius_graph so far
    g_i,           \* the position of the loop in self.blocks
    g_feat,        \* node_feature
    g_trace,       \* what every block so far was called with and returned
    g_out,         \* the returned tuple
    \* ---- one block called on an input and on the same input moved
    t_pc,          \* "start" | "done"
    t_block,       \* the class of the block
    t_in,          \* the block and the input of the call
    t_shift,       \* the constant added to every coordinate
    t_out,         \* the outputs on the input
    t_moved,       \* the outputs on the moved input
    \* ---- one forward call of an Equiformer block, step by step
    e_pc,          \* "start" | "skip" (after the first residual add)
                   \* | "returned"
    e_args,        \* the constructor's arguments
    e_p,           \* the parameters of the block
    e_train,       \* self.training
    e_cloud,       \* the nodes, source and destination of the edges
    e_r,           \* the radius of the edges
    e_ga,          \* the output of self.ga
    e_dp1,         \* the batch groups the first drop_path call dropped
    e_out1,        \* node_output after the first residual add
    e_ffn,         \* the output of self.ffn
    e_dp2,         \* the batch groups the second drop_path call dropped
    e_out          \* the returned node_output

rbfVars == <<rbf_pc, cutoff, num_basis, soft_cutoff_on, dist, win, rbf_out,
             rbf_calls, prev_dist, prev_win>>

conVars == <<con_pc, target, args, con_err, con_obj, scale_s, radius_sq,
             radius_list_sq, layers, layer_scale>>

fwVars == <<fw_pc, fw_input, node_count, fw_i, outputs>>

xVars == <<x_pc, x_n, x_scales, x_params, x_cutoffs, x_proj, query_coord,
           query_batch, acc, contrib, attn, x_edges, x_clouds, x_out>>

pVars == <<p_pc, p_args, p_block, p_params, training, p_cloud, p_starts,
           p_outs>>

qVars == <<q_pc, q_n_scales, q_det, q_node_coord, q_node_index, q_starts,
            q_coord, q_batch, q_index>>

gVars == <<g_pc, g_r, g_params, g_cloud, g_graph, g_graph_calls, g_i,
            g_feat, g_trace, g_out>>

tVars == <<t_pc, t_block, t_in, t_shift, t_out, t_moved>>

eVars == <<e_pc, e_args, e_p, e_train, e_cloud, e_r, e_ga, e_dp1, e_out1,
            e_ffn, e_dp2, e_out>>

vars == <<rbfVars, conVars, fwVars, xVars, pVars, qVars, gVars, tVars, eVars>>

\* what the actions of one component leave alone
notRbf == <<conVars, fwVars, xVars, pVars, qVars, gVars, tVars, eVars>>
notCon == <<rbfVars, fwVars, xVars, pVars, qVars, gVars, tVars, eVars>>
notFw == <<rbfVars, conVars, xVars, pVars, qVars, gVars, tVars, eVars>>
notX == <<rbfVars, conVars, fwVars, pVars, qVars, gVars, tVars, eVars>>
notP == <<rbfVars, conVars, fwVars, xVars, qVars, gVars, tVars, eVars>>
notQ == <<rbfVars, conVars, fwVars, xVars, pVars, gVars, tVars, eVars>>
notG == <<rbfVars, conVars, fwVars, xVars, pVars, qVars, tVars, eVars>>
notT == <<rbfVars, conVars, fwVars, xVars, pVars, qVars, gVars, eVars>>
notE == <<rbfVars, conVars, fwVars, xVars, pVars, qVars, gVars, tVars>>

----------------------------------------------------------------------------
(* Bounds of the model *)

MaxDist == 11
MinDist == 1
MaxBasis == 2
MaxCalls == 2
MaxScales == 3
MaxLayers == 2
MaxBatches == 2
MaxCoord == 2
MaxNodes == 2
MaxQueries == 2

----------------------------------------------------------------------------
(* Exact rational arithmetic *)

Abs(i) == IF i < 0 THEN 0 - i ELSE i

RECURSIVE Gcd(_, _)
Gcd(a, b) == IF b = 0 THEN a ELSE Gcd(b, a % b)

Rat(a, b) ==
    LET g == Gcd(Abs(a), Abs(b))
        s == IF b < 0 THEN 0 - 1 ELSE 1
    IN  [n |-> (s * a) \div g, d |-> (s * b) \div g]

RInt(i) == [n |-> i, d |-> 1]
\* sums and comparisons over the least common denominator, which keeps the
\* intermediate integers small
Lcm(a, b) == (a \div Gcd(a, b)) * b
OverLcm(x, y) == x.n * (Lcm(x.d, y.d) \div x.d)
RAdd(x, y) == Rat(OverLcm(x, y) + OverLcm(y, x), Lcm(x.d, y.d))
RSub(x, y) == Rat(OverLcm(x, y) - OverLcm(y, x), Lcm(x.d, y.d))
RMul(x, y) == Rat(x.n * y.n, x.d * y.d)
RDiv(x, y) == Rat(x.n * y.d, x.d * y.n)
RLt(x, y) == OverLcm(x, y) < OverLcm(y, x)
RLe(x, y) == OverLcm(x, y) <= OverLcm(y, x)

RECURSIVE RPow(_, _)
RPow(x, k) == IF k = 0 THEN RInt(1) ELSE RMul(x, RPow(x, k - 1))

\* a Python/torch boolean used as a number
BoolNum(b) == IF b THEN RInt(1) ELSE RInt(0)

----------------------------------------------------------------------------
(* gaussian_rbf.py *)

\* thr: float = 0.8 and n: int = 3, the defaults of soft_cutoff and
\* soft_square_cutoff
DefaultThr == Rat(4, 5)
DefaultN == 3

\* soft_step(x, n) = (x>0) * ((x<1)*((n+1)*x^n - n*x^(n+1)) + (x>=1))
soft_step(x, n) ==
    RMul(BoolNum(RLt(RInt(0), x)),
         RAdd(RMul(BoolNum(RLt(x, RInt(1))),
                   RSub(RMul(RInt(n + 1), RPow(x, n)),
                        RMul(RInt(n), RPow(x, n + 1)))),
              BoolNum(RLe(RInt(1), x))))

\* soft_cutoff(x, thr, n, offset): x = (x-thr)/(1-thr); x = x*(1+offset);
\* 1 - soft_step(x, n)
soft_cutoff(x, thr, n, offset) ==
    LET x1 == RDiv(RSub(x, thr), RSub(RInt(1), thr))
        x2 == RMul(x1, RAdd(RInt(1), offset))
    IN  RSub(RInt(1), soft_step(x2, n))

\* a window that only cuts at the upper end (the lower branch dropped)
soft_square_cutoff_upper_only(x, thr, n) ==
    soft_cutoff(x, thr, n, RInt(0))

\* soft_square_cutoff(x, thr, n) =
\*   soft_cutoff(x) * (x > 0.5) + soft_cutoff(1-x) * (x <= 0.5)
soft_square_cutoff(x, thr, n) ==
    RAdd(RMul(soft_cutoff(x, thr, n, RInt(0)), BoolNum(RLt(Rat(1, 2), x))),
         RMul(soft_cutoff(RSub(RInt(1), x), thr, n, RInt(0)),
              BoolNum(RLe(x, Rat(1, 2)))))

\* The cutoffs a layer is built with: 10 puts the thresholds 0.2 and 0.8
\* of the normalized distance on the grid, 7 does not.
Cutoffs == {7, 10}
Dists == (0 - MinDist)..MaxDist

\* gaussian(x, mean, std) = exp(-((x-mean)/std)^2 / 2) / (a*std): with
\* std = softplus(std_logit) > 0 it is a positive finite number; the model
\* keeps that and nothing else of it (amplitude g, 1 or 2).
GaussAmplitudes == {1, 2}

\* GaussianRadialBasisLayer.forward for one distance d; g[c] is channel c's
\* gaussian value
RbfWindow(d, c) == soft_square_cutoff(Rat(d, c), DefaultThr, DefaultN)

RbfForwardValue(d, c, g, soft) ==
    LET w == IF soft THEN RbfWindow(d, c) ELSE RInt(1)
    IN  [ch \in DOMAIN g |-> RMul(RInt(g[ch]), w)]

InitRbfVars ==
    /\ rbf_pc = "idle"
    /\ cutoff \in Cutoffs
    /\ num_basis \in 1..MaxBasis
    /\ soft_cutoff_on \in BOOLEAN
    /\ dist = 0
    /\ win = RInt(0)
    /\ rbf_out = <<>>
    /\ rbf_calls = 0
    /\ prev_dist = 0
    /\ prev_win = RInt(0)

IdleRbfVars ==
    /\ rbf_pc = "off"
    /\ cutoff = 10
    /\ num_basis = 1
    /\ soft_cutoff_on = TRUE
    /\ dist = 0
    /\ win = RInt(0)
    /\ rbf_out = <<>>
    /\ rbf_calls = 0
    /\ prev_dist = 0
    /\ prev_win = RInt(0)

RbfForward ==
    /\ rbf_pc \in {"idle", "done"}
    /\ rbf_calls < MaxCalls
    /\ \E d \in Dists :
        /\ dist' = d
        /\ win' = RbfWindow(d, cutoff)
        /\ \E g \in [1..num_basis -> GaussAmplitudes] :
              rbf_out' = RbfForwardValue(d, cutoff, g, soft_cutoff_on)
    /\ rbf_calls' = rbf_calls + 1
    /\ prev_dist' = dist
    /\ prev_win' = win
    /\ rbf_pc' = "done"
    /\ UNCHANGED <<cutoff, num_basis, soft_cutoff_on>>
    /\ UNCHANGED notRbf

----------------------------------------------------------------------------
(* block.py: construction *)

\* Python's None
NoneVal == "<None>"

NoError == [err |-> "", msg |-> "", by |-> ""]
\* exception `err` with message `msg`, raised by the __init__ of class `by`
Raise(err, msg, by) == [err |-> err, msg |-> msg, by |-> by]
NoObj == [kind |-> "none"]

\* o3.Irreps(...).dim of the signatures the model uses
IrrepsSet == {"4x0e", "2x0e+2x1e"}
IrrepsDim(irreps) ==
    IF irreps = "2x0e" THEN 2 ELSE IF irreps = "4x0e" THEN 4 ELSE 8
\* irreps_head is "2x0e" throughout
HeadDim == IrrepsDim("2x0e")

\* GaussianRadialBasisLayer.__init__: 2.0 / self.num_basis divides by zero
\* for num_basis == 0; torch.zeros(1, num_basis) rejects a negative size
GaussianRadialBasisLayerInit(nb) ==
    IF nb < 0 THEN Raise("RuntimeError", "negative dimension", "GaussianRadialBasisLayer")
    ELSE IF nb = 0 THEN Raise("ZeroDivisionError", "float division by zero",
                              "GaussianRadialBasisLayer")
    ELSE NoError

\* GaussianRadialBasisLayerFiniteCutoff (diffusion_edf.radial_func) is taken
\* to construct as the radial basis layer of gaussian_rbf.py does
FiniteCutoffInit(nb) == GaussianRadialBasisLayerInit(nb)

KnownAttnTypes == {"mlp", "linear", "dp"}

\* EquiformerBlock.__init__ with every attention type accepted
EquiformerBlockInit_any_attn(a) ==
    IF a.num_heads * HeadDim # IrrepsDim(a.irreps_dst)
    THEN Raise("AssertionError", "", "EquiformerBlock")
    ELSE NoError

\* EquiformerBlock.__init__
EquiformerBlockInit(a) ==
    IF a.num_heads * HeadDim # IrrepsDim(a.irreps_dst)
    THEN Raise("AssertionError", "", "EquiformerBlock")
    ELSE IF a.attn_type \notin KnownAttnTypes
    THEN Raise("ValueError", "Unknown attention type", "EquiformerBlock")
    ELSE IF a.attn_type = "mlp" THEN NoError
    ELSE IF a.attn_type = "linear"
    THEN Raise("NotImplementedError", "", "EquiformerBlock")
    ELSE IF a.attn_type = "dp"
    THEN Raise("NotImplementedError", "", "EquiformerBlock")
    ELSE Raise("ValueError", "Unknown attention type", "EquiformerBlock")

EquiformerBlockObj(a) ==
    [kind |-> "EquiformerBlock", irreps_src |-> a.irreps_src,
     irreps_dst |-> a.irreps_dst, attn_type |-> a.attn_type]

\* PoolingBlock.__init__ with the check of the first radial channel count
\* done by the block itself
PoolingBlockInit_checks_channels(a) ==
    IF a.irreps_src # a.irreps_dst
    THEN Raise("NotImplementedError", "", "PoolingBlock")
    ELSE IF EquiformerBlockInit(a) # NoError THEN EquiformerBlockInit(a)
    ELSE IF a.pool_method = NoneVal
    THEN Raise("AssertionError", "Unknown pooling method", "PoolingBlock")
    ELSE IF a.pool_method # "fps"
    THEN Raise("ValueError", "Unknown pooling method", "PoolingBlock")
    ELSE IF Len(a.fc_neurons) < 1 \/ a.fc_neurons[1] < 1
    THEN Raise("AssertionError", "len(fc_neurons) >= 1", "PoolingBlock")
    ELSE FiniteCutoffInit(a.fc_neurons[1])

\* PoolingBlock.__init__ without the comparison of the two signatures
PoolingBlockInit_no_irreps_check(a) ==
    IF EquiformerBlockInit(a) # NoError THEN EquiformerBlockInit(a)
    ELSE IF a.pool_method = NoneVal
    THEN Raise("AssertionError", "Unknown pooling method", "PoolingBlock")
    ELSE IF a.pool_method # "fps"
    THEN Raise("ValueError", "Unknown pooling method", "PoolingBlock")
    ELSE IF Len(a.fc_neurons) < 1
    THEN Raise("AssertionError", "len(fc_neurons) >= 1", "PoolingBlock")
    ELSE FiniteCutoffInit(a.fc_neurons[1])

\* PoolingBlock.__init__
PoolingBlockInit(a) ==
    IF a.irreps_src # a.irreps_dst
    THEN Raise("NotImplementedError", "", "PoolingBlock")
    ELSE IF EquiformerBlockInit(a) # NoError THEN EquiformerBlockInit(a)
    ELSE IF a.pool_method = NoneVal
    THEN Raise("AssertionError", "Unknown pooling method", "PoolingBlock")
    ELSE IF a.pool_method # "fps"
    THEN Raise("ValueError", "Unknown pooling method", "PoolingBlock")
    ELSE IF Len(a.fc_neurons) < 1
    THEN Raise("AssertionError", "len(fc_neurons) >= 1", "PoolingBlock")
    ELSE FiniteCutoffInit(a.fc_neurons[1])

\* PoolingBlock.__init__ building FpsPool with its default random_start
PoolingBlockObj_random_start(a) ==
    [kind |-> "PoolingBlock", irreps_src |-> a.irreps_src,
     irreps_dst |-> a.irreps_dst, radius_sq |-> a.radius_sq,
     pool_ratio |-> a.pool_ratio, random_start |-> TRUE,
     n_blocks |-> 1]

\* the PoolingBlock built from arguments a: one Equiformer block, FpsPool
\* with random_start = not deterministic and r = pool_radius
PoolingBlockObj(a) ==
    [kind |-> "PoolingBlock", irreps_src |-> a.irreps_src,
     irreps_dst |-> a.irreps_dst, radius_sq |-> a.radius_sq,
     pool_ratio |-> a.pool_ratio, random_start |-> ~a.deterministic,
     n_blocks |-> 1]

\* RadiusGraphBlock.__init__
RadiusGraphBlockInit(a) ==
    IF Len(a.fc_neurons) < 1
    THEN Raise("AssertionError", "len(fc_neurons) >= 1", "RadiusGraphBlock")
    ELSE IF a.n_layers < 1
    THEN Raise("AssertionError", "n_layers >= 1", "RadiusGraphBlock")
    ELSE IF EquiformerBlockInit(a) # NoError THEN EquiformerBlockInit(a)
    ELSE FiniteCutoffInit(a.fc_neurons[1])

\* the RadiusGraphBlock built from arguments a: n_layers Equiformer blocks
\* and as many radial layers, RadiusGraph with r = radius
RadiusGraphBlockObj(a) ==
    [kind |-> "RadiusGraphBlock", irreps_src |-> a.irreps_src,
     irreps_dst |-> a.irreps_dst, radius_sq |-> a.radius_sq,
     pool_ratio |-> RInt(1), random_start |-> FALSE,
     n_blocks |-> a.n_layers]

\* DownBlock.__init__, the assertions on pool_ratio, pool_method and
\* n_layers_per_scale; this one lets pool_ratio == 1 pass with a method set
DownBlockInitChecks_ratio_unchecked(a) ==
    IF a.pool_ratio # RInt(1) /\ a.pool_method = NoneVal
    THEN Raise("AssertionError", "pool_method is not None", "DownBlock")
    ELSE IF ~(a.n_layers >= 1)
    THEN Raise("AssertionError", "n_layers_per_scale >= 1", "DownBlock")
    ELSE NoError

DownBlockInitChecks(a) ==
    IF a.pool_ratio = RInt(1) /\ a.pool_method # NoneVal
    THEN Raise("AssertionError", "pool_method is None", "DownBlock")
    ELSE IF a.pool_ratio # RInt(1) /\ a.pool_method = NoneVal
    THEN Raise("AssertionError", "pool_method is not None", "DownBlock")
    ELSE IF ~(a.n_layers >= 1)
    THEN Raise("AssertionError", "n_layers_per_scale >= 1", "DownBlock")
    ELSE NoError

\* radius = init_radius * math.sqrt(self.pool_ratio), squared
InitialRadiusSq(a) == RMul(a.radius_sq, a.pool_ratio)

\* radius = radius / math.sqrt(self.pool_ratio), squared; this one doubles
\* the radius whatever the ratio
NextRadiusSq_doubling(rsq, ratio) == RMul(rsq, RInt(4))

NextRadiusSq(rsq, ratio) == RDiv(rsq, ratio)

\* the arguments DownBlock.__init__ hands to the blocks of one scale
PoolArgs(a, rsq) == [a EXCEPT !.radius_sq = rsq]
\* n_self_connecting_layers = n_layers_per_scale - (pool_method is not None)
NSelfConnecting(a) == a.n_layers - (IF a.pool_method # NoneVal THEN 1 ELSE 0)
GraphArgs(a, rsq) == [a EXCEPT !.radius_sq = rsq, !.n_layers = NSelfConnecting(a)]

\* the error, if any, of constructing the blocks of one scale
ScaleError(a, rsq) ==
    IF a.pool_method # NoneVal /\ PoolingBlockInit(PoolArgs(a, rsq)) # NoError
    THEN PoolingBlockInit(PoolArgs(a, rsq))
    ELSE IF NSelfConnecting(a) >= 1
    THEN RadiusGraphBlockInit(GraphArgs(a, rsq))
    ELSE NoError

\* the body of the loop with the Radius-Graph block appended before the
\* Pooling block
ScaleLayers_graph_first(a, rsq) ==
    (IF NSelfConnecting(a) >= 1
     THEN <<RadiusGraphBlockObj(GraphArgs(a, rsq))>> ELSE <<>>)
    \o (IF a.pool_method # NoneVal
        THEN <<PoolingBlockObj(PoolArgs(a, rsq))>> ELSE <<>>)

\* the layers one pass of the loop appends
ScaleLayers(a, rsq) ==
    (IF a.pool_method # NoneVal
     THEN <<PoolingBlockObj(PoolArgs(a, rsq))>> ELSE <<>>)
    \o (IF NSelfConnecting(a) >= 1
        THEN <<RadiusGraphBlockObj(GraphArgs(a, rsq))>> ELSE <<>>)

\* EdfExtractor.__init__, the arguments of the Equiformer block of scale n
PreLayerArgs(a, n) ==
    [a EXCEPT !.irreps_src = a.irreps_inputs[n],
              !.fc_neurons = a.fc_neurons_inputs[n]]

\* the error, if any, of one pass of for n in range(self.n_scales): fc[0]
\* of an empty list, the radial layer's, the Equiformer block's
RECURSIVE PreLayersError(_, _)
PreLayersError(a, n) ==
    IF n > Len(a.irreps_inputs) THEN NoError
    ELSE IF Len(a.fc_neurons_inputs[n]) < 1
    THEN Raise("IndexError", "list index out of range", "EdfExtractor")
    ELSE IF FiniteCutoffInit(a.fc_neurons_inputs[n][1]) # NoError
    THEN FiniteCutoffInit(a.fc_neurons_inputs[n][1])
    ELSE IF EquiformerBlockInit(PreLayerArgs(a, n)) # NoError
    THEN EquiformerBlockInit(PreLayerArgs(a, n))
    ELSE PreLayersError(a, n + 1)

\* the assertion on the lengths of the per-scale lists
ListsAgree(a) ==
    /\ Len(a.offsets) = Len(a.cutoffs)
    /\ Len(a.cutoffs) = Len(a.fc_neurons_inputs)
    /\ Len(a.fc_neurons_inputs) = Len(a.irreps_inputs)

\* EdfExtractor.__init__ without assert self.n_layers >= 1
EdfExtractorInit_layers_unchecked(a) ==
    IF ~ListsAgree(a)
    THEN Raise("AssertionError", "len(offsets) == len(cutoffs)", "EdfExtractor")
    ELSE PreLayersError(a, 1)

\* EdfExtractor.__init__
EdfExtractorInit(a) ==
    IF ~ListsAgree(a)
    THEN Raise("AssertionError", "len(offsets) == len(cutoffs)", "EdfExtractor")
    ELSE IF ~(a.n_layers >= 1)
    THEN Raise("AssertionError", "n_layers >= 1", "EdfExtractor")
    ELSE PreLayersError(a, 1)

\* an Optional[float]: None, or a number
NoOffset == <<>>
Offset(v) == <<v>>

\* RadiusConnect(r=self.cutoffs[n], offset=None, max_num_neighbors=1000)
PreConnect(a, n) == [r |-> a.cutoffs[n], offset |-> NoOffset]

\* GaussianRadialBasisLayerFiniteCutoff(num_basis=fc[0],
\* cutoff=self.cutoffs[n], offset=self.offsets[n], soft_cutoff=True)
PreRadial(a, n) ==
    [num_basis |-> a.fc_neurons_inputs[n][1], cutoff |-> a.cutoffs[n],
     offset |-> Offset(a.offsets[n]), soft_cutoff |-> TRUE]

\* the EdfExtractor built from arguments a
EdfExtractorObj(a) ==
    [kind |-> "EdfExtractor", n_scales |-> Len(a.irreps_inputs),
     pre_connect |-> [n \in 1..Len(a.irreps_inputs) |-> PreConnect(a, n)],
     pre_radial |-> [n \in 1..Len(a.irreps_inputs) |-> PreRadial(a, n)],
     pre_layers |-> [n \in 1..Len(a.irreps_inputs) |->
                        EquiformerBlockObj(PreLayerArgs(a, n))]]

AttnTypes == {"mlp", "linear", "dp", "softmax"}
FcNeurons == {<<>>, <<0>>, <<2>>}
PoolMethods == {NoneVal, "fps", "max"}
PoolRatios == {Rat(1, 4), Rat(1, 2), RInt(1)}
InitRadii == {1, 3}

DefaultArgs ==
    [irreps_src |-> "4x0e", irreps_dst |-> "4x0e", num_heads |-> 2,
     fc_neurons |-> <<2>>, attn_type |-> "mlp", pool_method |-> "fps",
     pool_ratio |-> Rat(1, 2), radius_sq |-> RInt(1), n_layers |-> 1,
     n_scales |-> 1, deterministic |-> FALSE,
     \* the drop rates, in tenths
     proj_drop |-> 1, drop_path_rate |-> 0,
     \* EdfExtractor: the per-scale lists
     irreps_inputs |-> <<"4x0e">>, fc_neurons_inputs |-> << <<2>> >>,
     cutoffs |-> <<2>>, offsets |-> <<1>>]

EquiformerArgs ==
    {[DefaultArgs EXCEPT !.irreps_src = is, !.irreps_dst = id, !.num_heads = h,
                         !.attn_type = t] :
        is \in IrrepsSet, id \in IrrepsSet, h \in {2, 4}, t \in AttnTypes}

PoolingArgs ==
    {[e EXCEPT !.fc_neurons = fc, !.pool_method = m, !.deterministic = det] :
        e \in EquiformerArgs, fc \in FcNeurons, m \in PoolMethods,
        det \in BOOLEAN}

GraphBlockArgs ==
    {[DefaultArgs EXCEPT !.irreps_src = i, !.irreps_dst = i, !.num_heads = h,
                         !.attn_type = t, !.fc_neurons = fc, !.n_layers = n] :
        i \in IrrepsSet, h \in {2, 4}, t \in AttnTypes, fc \in FcNeurons,
        n \in 0..MaxLayers}

DownArgs ==
    {[g EXCEPT !.pool_method = m, !.pool_ratio = r, !.n_scales = ns,
               !.radius_sq = RInt(ir * ir), !.deterministic = det] :
        g \in GraphBlockArgs, m \in PoolMethods, r \in PoolRatios,
        ns \in 1..MaxScales, ir \in InitRadii, det \in {TRUE}}

\* the per-scale lists of an EdfExtractor of one or two scales, some of
\* disagreeing lengths
CutoffLists == {<<2>>, <<2, 3>>}
OffsetLists == {<<1>>, <<0, 1>>, <<1, 2>>}
ExtractorArgs ==
    {[DefaultArgs EXCEPT !.irreps_inputs = [n \in 1..ns |-> "4x0e"],
                         !.fc_neurons_inputs = [n \in 1..ns |-> fc],
                         !.cutoffs = c, !.offsets = o, !.n_layers = nl,
                         !.attn_type = t, !.num_heads = h] :
        ns \in 1..2, fc \in FcNeurons, c \in CutoffLists, o \in OffsetLists,
        nl \in 0..MaxLayers, t \in AttnTypes, h \in {2, 4}}

InitConVars ==
    /\ con_pc = "start"
    /\ \/ target = "EquiformerBlock" /\ args \in EquiformerArgs
       \/ target = "PoolingBlock" /\ args \in PoolingArgs
       \/ target = "RadiusGraphBlock" /\ args \in GraphBlockArgs
       \/ target = "DownBlock" /\ args \in DownArgs
       \/ target = "EdfExtractor" /\ args \in ExtractorArgs
    /\ con_err = NoError
    /\ con_obj = NoObj
    /\ scale_s = 0
    /\ radius_sq = RInt(0)
    /\ radius_list_sq = <<>>
    /\ layers = <<>>
    /\ layer_scale = <<>>

IdleConVars ==
    /\ con_pc = "off"
    /\ target = "none"
    /\ args = DefaultArgs
    /\ con_err = NoError
    /\ con_obj = NoObj
    /\ scale_s = 0
    /\ radius_sq = RInt(0)
    /\ radius_list_sq = <<>>
    /\ layers = <<>>
    /\ layer_scale = <<>>

\* a constructor that is one step: it raises or returns the object
ConstructOne(cls, err, obj) ==
    /\ con_pc = "start"
    /\ target = cls
    /\ con_err' = err
    /\ con_pc' = IF err = NoError THEN "constructed" ELSE "raised"
    /\ con_obj' = IF err = NoError THEN obj ELSE NoObj
    /\ UNCHANGED <<target, args, scale_s, radius_sq, radius_list_sq, layers,
                   layer_scale>>

ConstructEquiformerBlock ==
    /\ ConstructOne("EquiformerBlock", EquiformerBlockInit(args),
                    EquiformerBlockObj(args))
    /\ UNCHANGED notCon

ConstructPoolingBlock ==
    /\ ConstructOne("PoolingBlock", PoolingBlockInit(args), PoolingBlockObj(args))
    /\ UNCHANGED notCon

ConstructRadiusGraphBlock ==
    /\ ConstructOne("RadiusGraphBlock", RadiusGraphBlockInit(args),
                    RadiusGraphBlockObj(args))
    /\ UNCHANGED notCon

ConstructEdfExtractor ==
    /\ ConstructOne("EdfExtractor", EdfExtractorInit(args), EdfExtractorObj(args))
    /\ UNCHANGED notCon

\* DownBlock.__init__ up to the loop
DownBlockInitStart ==
    /\ con_pc = "start"
    /\ target = "DownBlock"
    /\ con_err' = DownBlockInitChecks(args)
    /\ con_pc' = IF DownBlockInitChecks(args) = NoError THEN "loop" ELSE "raised"
    /\ radius_sq' = IF DownBlockInitChecks(args) = NoError
                    THEN InitialRadiusSq(args) ELSE radius_sq
    /\ UNCHANGED <<target, args, con_obj, scale_s, radius_list_sq, layers,
                   layer_scale>>
    /\ UNCHANGED notCon

\* one pass of for s in range(self.n_scales)
DownBlockInitScale ==
    /\ con_pc = "loop"
    /\ scale_s < args.n_scales
    /\ LET rsq == NextRadiusSq(radius_sq, args.pool_ratio)
           err == ScaleError(args, rsq)
           new == ScaleLayers(args, rsq)
       IN  /\ radius_sq' = rsq
           /\ radius_list_sq' = Append(radius_list_sq, rsq)
           /\ con_err' = err
           /\ IF err = NoError
              THEN /\ layers' = layers \o new
                   /\ layer_scale' = layer_scale \o [i \in 1..Len(new) |-> scale_s]
                   /\ scale_s' = scale_s + 1
                   /\ con_pc' = "loop"
              ELSE /\ con_pc' = "raised"
                   /\ UNCHANGED <<layers, layer_scale, scale_s>>
    /\ UNCHANGED <<target, args, con_obj>>
    /\ UNCHANGED notCon

\* the loop is over: __init__ returns
DownBlockInitReturn ==
    /\ con_pc = "loop"
    /\ scale_s = args.n_scales
    /\ con_pc' = "constructed"
    /\ UNCHANGED <<target, args, con_err, con_obj, scale_s, radius_sq,
                   radius_list_sq, layers, layer_scale>>
    /\ UNCHANGED notCon

----------------------------------------------------------------------------
(* block.py: DownBlock.forward, on the node counts of every batch group *)

\* ceil of a rational
Ceil(x) == 0 - ((0 - x.n) \div x.d)
Max(a, b) == IF a >= b THEN a ELSE b

\* FpsPool: a batch group of k nodes keeps max(1, ceil(ratio * k)) of them
FpsCount(ratio, k) == Max(1, Ceil(RMul(ratio, RInt(k))))

\* PoolingBlock.forward: the destination set of pool_layer, per batch group
PoolingBlockForward(layer, counts) ==
    [kind |-> "PoolingBlock",
     counts |-> [b \in DOMAIN counts |-> FpsCount(layer.pool_ratio, counts[b])]]

\* RadiusGraphBlock.forward returns node_coord and batch as they came
RadiusGraphBlockForward(layer, counts) ==
    [kind |-> "RadiusGraphBlock", counts |-> counts]

\* output = layer(node_feature, node_coord, batch)
LayerForward(layer, counts) ==
    IF layer.kind = "PoolingBlock" THEN PoolingBlockForward(layer, counts)
    ELSE RadiusGraphBlockForward(layer, counts)

\* a loop body that keeps only the last output
AppendOutput_keep_last(outs, out) == <<out>>

\* outputs.append(output)
AppendOutput(outs, out) == Append(outs, out)

\* a loop body that feeds every layer the call's own input
NextInput_stale(cur, out) == cur

\* node_feature, node_coord, batch = output[0], output[1], output[7]
NextInput(cur, out) == out.counts

\* the layers, their scales and the radius list DownBlock.__init__ leaves
\* behind for arguments a, from scale s on with the local radius rsq
RECURSIVE BuildLayers(_, _, _)
BuildLayers(a, s, rsq) ==
    IF s >= a.n_scales THEN <<>>
    ELSE LET r == NextRadiusSq(rsq, a.pool_ratio)
         IN  ScaleLayers(a, r) \o BuildLayers(a, s + 1, r)

RECURSIVE BuildLayerScale(_, _, _)
BuildLayerScale(a, s, rsq) ==
    IF s >= a.n_scales THEN <<>>
    ELSE LET r == NextRadiusSq(rsq, a.pool_ratio)
         IN  [i \in 1..Len(ScaleLayers(a, r)) |-> s]
                 \o BuildLayerScale(a, s + 1, r)

RECURSIVE BuildRadiusList(_, _, _)
BuildRadiusList(a, s, rsq) ==
    IF s >= a.n_scales THEN <<>>
    ELSE LET r == NextRadiusSq(rsq, a.pool_ratio)
         IN  <<r>> \o BuildRadiusList(a, s + 1, r)

\* the arguments DownBlock.__init__ accepts
ValidDownArgs ==
    {a \in DownArgs : /\ DownBlockInitChecks(a) = NoError
                      /\ ScaleError(a, a.radius_sq) = NoError}

\* a constructed DownBlock
BuiltDownBlock ==
    /\ con_pc = "constructed"
    /\ target = "DownBlock"
    /\ args \in ValidDownArgs
    /\ con_err = NoError
    /\ con_obj = NoObj
    /\ scale_s = args.n_scales
    /\ radius_list_sq = BuildRadiusList(args, 0, InitialRadiusSq(args))
    /\ radius_sq = radius_list_sq[Len(radius_list_sq)]
    /\ layers = BuildLayers(args, 0, InitialRadiusSq(args))
    /\ layer_scale = BuildLayerScale(args, 0, InitialRadiusSq(args))

\* the sizes of the batch groups of an input point cloud
NodeCounts == {1, 2, 3, 5, 12, 13, 25, 50}
InputCounts ==
    UNION {[1..nb -> NodeCounts] : nb \in 1..MaxBatches}

InitFwVars ==
    /\ fw_pc = "loop"
    /\ fw_input \in InputCounts
    /\ node_count = fw_input
    /\ fw_i = 1
    /\ outputs = <<>>

IdleFwVars ==
    /\ fw_pc = "off"
    /\ fw_input = <<>>
    /\ node_count = <<>>
    /\ fw_i = 1
    /\ outputs = <<>>

\* a loop that walks self.layers from the back
LayerAt_reversed(ls, i) == ls[Len(ls) + 1 - i]

\* the layer of pass i of for layer in self.layers
LayerAt(ls, i) == ls[i]

\* one pass of for layer in self.layers
DownForwardLayer ==
    /\ fw_pc = "loop"
    /\ fw_i <= Len(layers)
    /\ LET output == LayerForward(LayerAt(layers, fw_i), node_count)
       IN  /\ outputs' = AppendOutput(outputs, output)
           /\ node_count' = NextInput(node_count, output)
    /\ fw_i' = fw_i + 1
    /\ UNCHANGED <<fw_pc, fw_input>>
    /\ UNCHANGED notFw

\* return outputs
DownForwardReturn ==
    /\ fw_pc = "loop"
    /\ fw_i > Len(layers)
    /\ fw_pc' = "returned"
    /\ UNCHANGED <<fw_input, node_count, fw_i, outputs>>
    /\ UNCHANGED notFw

----------------------------------------------------------------------------
(* block.py: the forward passes, on values.  A feature vector is one       *)
(* integer channel, a coordinate a point of the integer line.              *)

Sgn(x) == IF x > 0 THEN 1 ELSE IF x < 0 THEN 0 - 1 ELSE 0

RECURSIVE SumSeq(_)
SumSeq(s) == IF s = <<>> THEN 0 ELSE Head(s) + SumSeq(Tail(s))

\* LinearRS: an affine map
LinearRS(w, b, x) == [i \in DOMAIN x |-> w * x[i] + b]

\* EquivariantLayerNormV2: scale-free in its input, then the learned affine
\* map; a zero input gives the affine bias
LayerNorm(w, b, x) == [i \in DOMAIN x |-> w * Sgn(x[i]) + b]

\* the gate nonlinearity of FullyConnectedTensorProductRescaleSwishGate:
\* 0 at 0, the identity for large arguments
Act(y) == IF y > 0 THEN y ELSE 0

\* the draws of a forward pass: dp1, dp2 the batch groups whose attention /
\* feed-forward contribution stochastic depth drops, fd the destination
\* nodes whose feed-forward output proj_drop zeroes
NoDrop == [dp1 |-> {}, dp2 |-> {}, fd |-> {}]

\* GraphDropPath(x, batch): the rows of the dropped batch groups are zeroed
GraphDropPath(x, batch, dropped) ==
    [i \in DOMAIN x |-> IF batch[i] \in dropped THEN 0 ELSE x[i]]

\* EquivariantDropout: the dropped rows are zeroed
EquivariantDropout(x, dropped) ==
    [i \in DOMAIN x |-> IF i \in dropped THEN 0 ELSE x[i]]

\* FeedForwardNetwork.forward with fctp_1 and fctp_2 built without bias
FeedForwardNetwork_no_bias(p, x, fd) ==
    LET h == [i \in DOMAIN x |-> Act(p.f_w1 * x[i])]
        y == [i \in DOMAIN x |-> p.f_w2 * h[i]]
    IN  IF p.proj_drop THEN EquivariantDropout(y, fd) ELSE y

\* FeedForwardNetwork.forward: fctp_1 (gated) and fctp_2, both with bias
\* (bias: bool = True), then proj_drop when there is one
FeedForwardNetwork(p, x, fd) ==
    LET h == [i \in DOMAIN x |-> Act(p.f_w1 * x[i] + p.f_b1)]
        y == [i \in DOMAIN x |-> p.f_w2 * h[i] + p.f_b2]
    IN  IF p.proj_drop THEN EquivariantDropout(y, fd) ELSE y

\* GraphAttentionMLP: per destination node, the sum over its incoming edges
\* of the edge's value, which the radial scalar gates; no incoming edge, no
\* contribution
GraphAttention(message, edge_dst, edge_attr, edge_scalars, n_nodes_dst) ==
    [j \in 1..n_nodes_dst |->
        SumSeq([e \in DOMAIN message |->
                   IF edge_dst[e] = j
                   THEN (message[e] + edge_attr[e]) * edge_scalars[e]
                   ELSE 0])]

\* EquiformerBlock.forward, the per-edge message: the results of norm_1_src
\* and norm_1_dst are overwritten by the linear maps of the raw inputs
EquiformerBlockMessage(p, src, dst, g) ==
    LET message_src == LinearRS(p.w_src, 0, src)
        message_dst == LinearRS(p.w_dst, p.b_dst, dst)
    IN  [e \in DOMAIN g.edge_src |->
            message_src[g.edge_src[e]] + message_dst[g.edge_dst[e]]]

\* EquiformerBlock.forward up to self.ga(...)
EquiformerBlockAttention(p, src, dst, g) ==
    GraphAttention(EquiformerBlockMessage(p, src, dst, g), g.edge_dst,
                   g.edge_attr, g.edge_scalars, Len(dst))

\* EquiformerBlock.forward
EquiformerBlockForward(p, src, dst, batch_dst, g, rnd) ==
    LET ga == EquiformerBlockAttention(p, src, dst, g)
        f1 == IF p.drop_path THEN GraphDropPath(ga, batch_dst, rnd.dp1) ELSE ga
        out1 == [i \in DOMAIN dst |-> dst[i] + f1[i]]
        ffn == FeedForwardNetwork(p, LayerNorm(p.n2_w, p.n2_b, out1), rnd.fd)
        f2 == IF p.drop_path THEN GraphDropPath(ffn, batch_dst, rnd.dp2) ELSE ffn
    IN  [i \in DOMAIN dst |-> out1[i] + f2[i]]

\* RadiusConnect: the pairs (source i, destination j) of one batch group at
\* distance <= r, in index order
AllPairs(ns, nd) ==
    [k \in 1..(ns * nd) |-> <<((k - 1) % ns) + 1, ((k - 1) \div ns) + 1>>]

RadiusConnect(coord_src, batch_src, coord_dst, batch_dst, r) ==
    LET Near(e) == /\ batch_src[e[1]] = batch_dst[e[2]]
                   /\ Abs(coord_src[e[1]] - coord_dst[e[2]]) <= r
    IN  SelectSeq(AllPairs(Len(coord_src), Len(coord_dst)), Near)

\* the radial encoding of an edge length: positive inside the cutoff, zero
\* from the cutoff on
RadialScalar(len, r) == IF len >= r THEN 0 ELSE r - len

\* an edge vector that is the coordinate of the edge's source
EdgeGeometry_from_origin(pairs, coord_src, coord_dst, r) ==
    LET vec == [e \in DOMAIN pairs |-> coord_src[pairs[e][1]]]
    IN  [edge_src |-> [e \in DOMAIN pairs |-> pairs[e][1]],
         edge_dst |-> [e \in DOMAIN pairs |-> pairs[e][2]],
         edge_attr |-> [e \in DOMAIN pairs |-> Sgn(vec[e])],
         edge_length |-> [e \in DOMAIN pairs |-> Abs(vec[e])],
         edge_scalars |-> [e \in DOMAIN pairs |-> RadialScalar(Abs(vec[e]), r)]]

\* edge_vec, edge_attr = spherical_harmonics(edge_vec) (the direction),
\* edge_length and edge_scalars = radial(edge_length) of an edge list
EdgeGeometry(pairs, coord_src, coord_dst, r) ==
    LET vec == [e \in DOMAIN pairs |->
                   coord_src[pairs[e][1]] - coord_dst[pairs[e][2]]]
    IN  [edge_src |-> [e \in DOMAIN pairs |-> pairs[e][1]],
         edge_dst |-> [e \in DOMAIN pairs |-> pairs[e][2]],
         edge_attr |-> [e \in DOMAIN pairs |-> Sgn(vec[e])],
         edge_length |-> [e \in DOMAIN pairs |-> Abs(vec[e])],
         edge_scalars |-> [e \in DOMAIN pairs |-> RadialScalar(Abs(vec[e]), r)]]

\* self.zero_features.expand(len(query_coord), self.emb_dim)
ZeroFeatures(n) == [i \in 1..n |-> 0]

\* the parameters of the Equiformer block of one scale: the weights are
\* fixed, the biases of norm_2 (nb) and of the two layers of the
\* feed-forward network (b1, b2) are any of BiasChoices; drop_path and
\* proj_drop say whether the block holds these modules
BiasChoices == {<<0, 0, 0>>, <<0, 1, 1>>, <<1, 0, 0>>}
BlockParams(dp, pd) ==
    {[w_src |-> 1, w_dst |-> 1, b_dst |-> 1, n1_w |-> 1, n1_b |-> 0,
      n2_w |-> 1, n2_b |-> b[1],
      f_w1 |-> 1, f_b1 |-> b[2], f_w2 |-> 2, f_b2 |-> b[3],
      drop_path |-> dp, proj_drop |-> pd] : b \in BiasChoices}

\* a point cloud: coordinates (distinct, in increasing order), features
\* and batch indices of its nodes
Coords == 0..MaxCoord
Feats == {0, 2}
Increasing(c) == \A i \in 1..(Len(c) - 1) : c[i] < c[i + 1]
Clouds(batches) ==
    UNION {{[coord |-> c, feat |-> f, batch |-> b] :
               c \in {cc \in [1..k -> Coords] : Increasing(cc)},
               f \in [1..k -> Feats],
               b \in [1..k -> batches]} : k \in 1..MaxNodes}

\* node_features, node_coords, node_batches: the scales of one hierarchy,
\* every scale after the first a sample of the nodes of the scale before it
SubCloud(cloud, S) ==
    LET idx == CHOOSE f \in [1..Cardinality(S) -> S] : Increasing(f)
    IN  [coord |-> [i \in DOMAIN idx |-> cloud.coord[idx[i]]],
         feat |-> [i \in DOMAIN idx |-> cloud.feat[idx[i]]],
         batch |-> [i \in DOMAIN idx |-> cloud.batch[idx[i]]]]
ScaleClouds(finer) ==
    IF finer = <<>> THEN Clouds({0})
    ELSE {SubCloud(finer[Len(finer)], S) :
             S \in (SUBSET DOMAIN finer[Len(finer)].coord) \ {{}}}

\* self.cutoffs by the number of scales
ExtractCutoffs == {<<1>>, <<1, 2>>}

InitXVars ==
    /\ x_pc = "loop"
    /\ x_n = 1
    /\ x_cutoffs \in ExtractCutoffs
    /\ x_scales = Len(x_cutoffs)
    /\ x_params \in [1..x_scales -> BlockParams(FALSE, FALSE)]
    /\ x_proj = [w |-> 1, b |-> 1]
    /\ \E k \in 1..MaxQueries :
          /\ query_coord \in {c \in [1..k -> Coords] : Increasing(c)}
          /\ query_batch = [i \in 1..k |-> 0]
          /\ acc = ZeroFeatures(k)
          /\ contrib = ZeroFeatures(k)
          /\ attn = ZeroFeatures(k)
    /\ x_edges = <<>>
    /\ x_clouds = <<>>
    /\ x_out = <<>>

IdleXVars ==
    /\ x_pc = "off"
    /\ x_n = 1
    /\ x_scales = 1
    /\ x_params = <<>>
    /\ x_cutoffs = <<>>
    /\ x_proj = [w |-> 1, b |-> 0]
    /\ query_coord = <<>>
    /\ query_batch = <<>>
    /\ acc = <<>>
    /\ contrib = <<>>
    /\ attn = <<>>
    /\ x_edges = <<>>
    /\ x_clouds = <<>>
    /\ x_out = <<>>

\* node_input_dst of a scale's block, with the accumulator handed on
PreLayerInput_accumulator(accumulator, n_queries) == accumulator

\* node_input_dst = (self.zero_features.detach()).expand(len(query_coord),
\* self.emb_dim), whatever the accumulator holds
PreLayerInput(accumulator, n_queries) == ZeroFeatures(n_queries)

\* EdfExtractor.forward, one pass of the loop over the scales; the nodes of
\* scale n (node_features[n], node_coords[n], node_batches[n]) are read here
ExtractScale ==
    /\ x_pc = "loop"
    /\ x_n <= x_scales
    /\ \E cloud \in ScaleClouds(x_clouds) :
        LET pairs == RadiusConnect(cloud.coord, cloud.batch, query_coord,
                                   query_batch, x_cutoffs[x_n])
            g == EdgeGeometry(pairs, cloud.coord, query_coord, x_cutoffs[x_n])
            dst == PreLayerInput(acc, Len(query_coord))
            out == EquiformerBlockForward(x_params[x_n], cloud.feat, dst,
                                          query_batch, g, NoDrop)
        IN  /\ x_edges' = pairs
            /\ x_clouds' = Append(x_clouds, cloud)
            /\ attn' = EquiformerBlockAttention(x_params[x_n], cloud.feat, dst, g)
            /\ contrib' = out
            /\ acc' = [i \in DOMAIN acc |-> acc[i] + out[i]]
    /\ x_n' = x_n + 1
    /\ UNCHANGED <<x_pc, x_scales, x_params, x_cutoffs, x_proj, query_coord,
                   query_batch, x_out>>
    /\ UNCHANGED notX

\* return self.proj(node_feature_dst)
ExtractReturn ==
    /\ x_pc = "loop"
    /\ x_n > x_scales
    /\ x_out' = LinearRS(x_proj.w, x_proj.b, acc)
    /\ x_pc' = "returned"
    /\ UNCHANGED <<x_n, x_scales, x_params, x_cutoffs, x_proj, query_coord,
                   query_batch, acc, contrib, attn, x_edges, x_clouds>>
    /\ UNCHANGED notX

----------------------------------------------------------------------------
(* block.py: PoolingBlock.forward on values, called twice on one input *)

\* torch_cluster.fps within one batch group: from the start index, the node
\* farthest from those taken so far joins next (the lowest index on a tie)
MinDistTo(coord, i, taken) ==
    LET ds == {Abs(coord[i] - coord[t]) : t \in taken}
    IN  CHOOSE d \in ds : \A e \in ds : d <= e

Farthest(coord, members, taken) ==
    LET rest == members \ taken
    IN  CHOOSE i \in rest :
            \A k \in rest :
                \/ MinDistTo(coord, i, taken) > MinDistTo(coord, k, taken)
                \/ /\ MinDistTo(coord, i, taken) = MinDistTo(coord, k, taken)
                   /\ i <= k

RECURSIVE FpsGroup(_, _, _, _)
FpsGroup(coord, members, sel, n) ==
    IF Len(sel) >= n \/ members \subseteq {sel[i] : i \in DOMAIN sel} THEN sel
    ELSE FpsGroup(coord, members,
                  Append(sel, Farthest(coord, members,
                                       {sel[i] : i \in DOMAIN sel})), n)

BatchGroups(batch) == {batch[i] : i \in DOMAIN batch}
Members(batch, b) == {i \in DOMAIN batch : batch[i] = b}
First(S) == CHOOSE i \in S : \A k \in S : i <= k

\* the start indices fps may take: index 0 of each batch group unless
\* random_start, then any node of the group
FpsStarts(batch, random_start) ==
    {st \in [BatchGroups(batch) -> DOMAIN batch] :
        \A b \in BatchGroups(batch) :
            /\ st[b] \in Members(batch, b)
            /\ ~random_start => st[b] = First(Members(batch, b))}

\* fps(src, batch, ratio, random_start): the sampled indices, group by group
RECURSIVE FpsOver(_, _, _, _, _)
FpsOver(groups, coord, batch, ratio, st) ==
    IF groups = {} THEN <<>>
    ELSE LET b == First(groups)
             m == Members(batch, b)
         IN  FpsGroup(coord, m, <<st[b]>>, FpsCount(ratio, Cardinality(m)))
             \o FpsOver(groups \ {b}, coord, batch, ratio, st)

Fps(coord, batch, ratio, st) ==
    FpsOver(BatchGroups(batch), coord, batch, ratio, st)

\* the square root of a rational that is the square of an integer
ISqrt(q) == CHOOSE r \in 0..q.n : r * r * q.d = q.n

\* FpsPool.forward: the sampled nodes and the edges from the nodes within r
FpsPool(layer, cloud, st) ==
    LET idx == Fps(cloud.coord, cloud.batch, layer.pool_ratio, st)
        coord_dst == [i \in DOMAIN idx |-> cloud.coord[idx[i]]]
        batch_dst == [i \in DOMAIN idx |-> cloud.batch[idx[i]]]
    IN  [feat |-> [i \in DOMAIN idx |-> cloud.feat[idx[i]]],
         coord |-> coord_dst, batch |-> batch_dst,
         pairs |-> RadiusConnect(cloud.coord, cloud.batch, coord_dst,
                                 batch_dst, ISqrt(layer.radius_sq))]

\* PoolingBlock.forward
PoolingBlockForwardValues(layer, p, cloud, st, rnd) ==
    LET pool == FpsPool(layer, cloud, st)
        g == EdgeGeometry(pool.pairs, cloud.coord, pool.coord,
                          ISqrt(layer.radius_sq))
    IN  [feat |-> EquiformerBlockForward(p, cloud.feat, pool.feat, pool.batch,
                                         g, rnd),
         coord |-> pool.coord, batch |-> pool.batch]

\* self.drop_path = GraphDropPath(drop_path_rate) if drop_path_rate > 0.
HasDropPath(a) == a.drop_path_rate > 0
\* if not proj_drop: self.proj_drop = None
HasProjDrop(a) == a.proj_drop # 0

\* the draws of one pass: a module draws only in training mode
Draws(p, train, batch_dst) ==
    LET groups == IF train /\ p.drop_path THEN SUBSET BatchGroups(batch_dst)
                  ELSE {{}}
        rows == IF train /\ p.proj_drop THEN SUBSET (DOMAIN batch_dst) ELSE {{}}
    IN  {[dp1 |-> a, dp2 |-> b, fd |-> c] :
            a \in groups, b \in groups, c \in rows}

DropRates == {0, 1}
PassArgs ==
    {[DefaultArgs EXCEPT !.radius_sq = RInt(4), !.deterministic = det,
                         !.drop_path_rate = dp, !.proj_drop = pd] :
        det \in BOOLEAN, dp \in DropRates, pd \in DropRates}

Sorted(c) == \A i \in 1..(Len(c) - 1) : c[i] <= c[i + 1]
PassClouds == {c \in Clouds({0, 1}) : c.batch[1] = 0 /\ Sorted(c.batch)}

InitPVars ==
    /\ p_pc = "ready"
    /\ p_args \in PassArgs
    /\ PoolingBlockInit(p_args) = NoError
    /\ p_block = PoolingBlockObj(p_args)
    /\ p_params \in {p \in BlockParams(HasDropPath(p_args), HasProjDrop(p_args)) :
                        p.f_b1 = 1}
    /\ training \in BOOLEAN
    /\ p_cloud \in PassClouds
    /\ p_starts = <<>>
    /\ p_outs = <<>>

IdlePVars ==
    /\ p_pc = "off"
    /\ p_args = DefaultArgs
    /\ p_block = NoObj
    /\ p_params = <<>>
    /\ training = FALSE
    /\ p_cloud = <<>>
    /\ p_starts = <<>>
    /\ p_outs = <<>>

\* one of the two calls block(node_feature, node_coord, batch)
PoolingForwardPass ==
    /\ p_pc = "ready"
    /\ Len(p_outs) < 2
    /\ \E st \in FpsStarts(p_cloud.batch, p_block.random_start) :
        LET pool == FpsPool(p_block, p_cloud, st)
        IN  \E rnd \in Draws(p_params, training, pool.batch) :
              /\ p_starts' = Append(p_starts, st)
              /\ p_outs' = Append(p_outs,
                                  PoolingBlockForwardValues(p_block, p_params,
                                                            p_cloud, st, rnd))
    /\ UNCHANGED <<p_pc, p_args, p_block, p_params, training, p_cloud>>
    /\ UNCHANGED notP

----------------------------------------------------------------------------
(* query_model.py: QueryModel.forward, the batch-and-scale index *)

\* index_select(x, index=idx)
IndexSelect(x, idx) == [i \in DOMAIN idx |-> x[idx[i]]]

\* (node_batch_n_scale % self.n_scales == (self.n_scales-1)).nonzero():
\* the indices of the top-scale nodes, in order, from position i on
RECURSIVE TopScaleFrom(_, _, _)
TopScaleFrom(index, i, ns) ==
    IF i > Len(index) THEN <<>>
    ELSE (IF index[i] % ns = ns - 1 THEN <<i>> ELSE <<>>)
         \o TopScaleFrom(index, i + 1, ns)

TopScaleNodeIdx(index, ns) == TopScaleFrom(index, 1, ns)

\* self.query_downsample_ratio
QueryDownsampleRatio == Rat(1, 2)

\* QueryModel._get_init_query_pos with only_from_top_scale=True, for the
\* start indices st of fps
GetInitQueryPos(coord, index, ns, st) ==
    LET top == TopScaleNodeIdx(index, ns)
        node_coord == IndexSelect(coord, top)
        batch == [i \in DOMAIN top |-> index[top[i]] \div ns]
        node_dst_idx == Fps(node_coord, batch, QueryDownsampleRatio, st)
    IN  [query_coord |-> IndexSelect(node_coord, node_dst_idx),
         query_batch |-> IndexSelect(batch, node_dst_idx)]

\* the batch of the top-scale nodes, as _get_init_query_pos hands it to fps
TopScaleBatch(index, ns) ==
    LET top == TopScaleNodeIdx(index, ns)
    IN  [i \in DOMAIN top |-> index[top[i]] \div ns]

\* query_batch * query_scale.unsqueeze(-1) + query_scale.unsqueeze(-1), with
\* query_scale = arange(n_scales): row s is query_batch * s + s
QueryBatchNScale(qbatch, ns) ==
    [s1 \in 1..ns |-> [q \in DOMAIN qbatch |->
                          qbatch[q] * (s1 - 1) + (s1 - 1)]]

\* the nodes of all scales: distinct coordinates, node_batch_n_scale in
\* increasing order
QueryNodes(ns) ==
    UNION {{[coord |-> c, index |-> ix] :
               c \in {cc \in [1..k -> Coords] : Increasing(cc)},
               ix \in {v \in [1..k -> 0..(MaxBatches * ns - 1)] : Sorted(v)}} :
           k \in 1..MaxNodes}

InitQVars ==
    /\ q_pc = "start"
    /\ q_n_scales \in 1..MaxScales
    /\ q_det \in BOOLEAN
    /\ \E nodes \in QueryNodes(q_n_scales) :
          /\ q_node_coord = nodes.coord
          /\ q_node_index = nodes.index
    /\ q_starts = <<>>
    /\ q_coord = <<>>
    /\ q_batch = <<>>
    /\ q_index = <<>>

IdleQVars ==
    /\ q_pc = "off"
    /\ q_n_scales = 1
    /\ q_det = FALSE
    /\ q_node_coord = <<>>
    /\ q_node_index = <<>>
    /\ q_starts = <<>>
    /\ q_coord = <<>>
    /\ q_batch = <<>>
    /\ q_index = <<>>

\* query_coord, query_batch = self._get_init_query_pos(...)
QueryGetInitPos ==
    /\ q_pc = "start"
    /\ \E st \in FpsStarts(TopScaleBatch(q_node_index, q_n_scales), ~q_det) :
        LET r == GetInitQueryPos(q_node_coord, q_node_index, q_n_scales, st)
        IN  /\ q_starts' = st
            /\ q_coord' = r.query_coord
            /\ q_batch' = r.query_batch
    /\ q_pc' = "queried"
    /\ UNCHANGED <<q_n_scales, q_det, q_node_coord, q_node_index, q_index>>
    /\ UNCHANGED notQ

\* query_scale = torch.arange(self.n_scales); query_batch_n_scale = ...
QueryEncode ==
    /\ q_pc = "queried"
    /\ q_index' = QueryBatchNScale(q_batch, q_n_scales)
    /\ q_pc' = "encoded"
    /\ UNCHANGED <<q_n_scales, q_det, q_node_coord, q_node_index, q_starts,
                   q_coord, q_batch>>
    /\ UNCHANGED notQ

----------------------------------------------------------------------------
(* block.py: RadiusGraphBlock.forward, on values *)

\* RadiusGraph: the ordered pairs of distinct nodes of one batch group at
\* distance <= r, in index order
RadiusGraph(coord, batch, r) ==
    LET Other(e) == e[1] # e[2]
    IN  SelectSeq(RadiusConnect(coord, batch, coord, batch, r), Other)

\* the number of incoming edges of every node
Degree(edge_dst, n) ==
    [j \in 1..n |-> Cardinality({e \in DOMAIN edge_dst : edge_dst[e] = j})]

\* self.radius_graph(...), edge_vec, edge_attr and edge_length of a call
RadiusGraphGeometry(cloud, r) ==
    LET pairs == RadiusGraph(cloud.coord, cloud.batch, r)
        geo == EdgeGeometry(pairs, cloud.coord, cloud.coord, r)
    IN  [edge_src |-> geo.edge_src, edge_dst |-> geo.edge_dst,
         edge_attr |-> geo.edge_attr, edge_length |-> geo.edge_length,
         degree |-> Degree(geo.edge_dst, Len(cloud.coord))]

\* self.radials[k](edge_length): the radial layer of block k has its own
\* parameters (here its amplitude k) and the cutoff 0.99 * r
RadialOfBlock(k, edge_length, r) ==
    [e \in DOMAIN edge_length |->
        k * RadialScalar(100 * edge_length[e], 99 * r)]

\* a loop that hands every block the features the call came with
BlockInput_of_call(node_feature, call_feature) == call_feature

\* node_input_src = node_feature, node_input_dst = node_feature
BlockInput(node_feature, call_feature) == node_feature

\* the edges and edge features a block is called with
BlockEdges(graph, edge_scalars) ==
    [edge_src |-> graph.edge_src, edge_dst |-> graph.edge_dst,
     edge_attr |-> graph.edge_attr, edge_scalars |-> edge_scalars]

\* the radii of a Radius-Graph block
GraphRadii == {1, 2}

InitGVars ==
    /\ g_pc = "start"
    /\ g_r \in GraphRadii
    /\ \E n \in 1..MaxLayers : g_params \in [1..n -> BlockParams(FALSE, FALSE)]
    /\ g_cloud \in PassClouds
    /\ g_graph = <<>>
    /\ g_graph_calls = 0
    /\ g_i = 1
    /\ g_feat = g_cloud.feat
    /\ g_trace = <<>>
    /\ g_out = <<>>

IdleGVars ==
    /\ g_pc = "off"
    /\ g_r = 1
    /\ g_params = <<>>
    /\ g_cloud = <<>>
    /\ g_graph = <<>>
    /\ g_graph_calls = 0
    /\ g_i = 1
    /\ g_feat = <<>>
    /\ g_trace = <<>>
    /\ g_out = <<>>

\* self.radius_graph(...) and the geometry of its edges
RadiusGraphForwardGraph ==
    /\ g_pc = "start"
    /\ g_graph' = RadiusGraphGeometry(g_cloud, g_r)
    /\ g_graph_calls' = g_graph_calls + 1
    /\ g_pc' = "loop"
    /\ UNCHANGED <<g_r, g_params, g_cloud, g_i, g_feat, g_trace, g_out>>
    /\ UNCHANGED notG

\* one pass of for block, radial_basis_fn in zip(self.blocks, self.radials)
RadiusGraphForwardBlock ==
    /\ g_pc = "loop"
    /\ g_i <= Len(g_params)
    /\ LET edge_scalars == RadialOfBlock(g_i, g_graph.edge_length, g_r)
           input == BlockInput(g_feat, g_cloud.feat)
           edges == BlockEdges(g_graph, edge_scalars)
           out == EquiformerBlockForward(g_params[g_i], input, input,
                                         g_cloud.batch, edges, NoDrop)
       IN  /\ g_feat' = out
           /\ g_trace' = Append(g_trace,
                  [block |-> g_i, node_input_src |-> input,
                   node_input_dst |-> input, batch_dst |-> g_cloud.batch,
                   edge_src |-> edges.edge_src, edge_dst |-> edges.edge_dst,
                   edge_attr |-> edges.edge_attr,
                   edge_length |-> g_graph.edge_length,
                   edge_scalars |-> edge_scalars, out |-> out])
    /\ g_i' = g_i + 1
    /\ UNCHANGED <<g_pc, g_r, g_params, g_cloud, g_graph, g_graph_calls, g_out>>
    /\ UNCHANGED notG

\* return node_feature, node_coord, edge_src, edge_dst, edge_length,
\* edge_attr, degree, batch
RadiusGraphForwardReturn ==
    /\ g_pc = "loop"
    /\ g_i > Len(g_params)
    /\ g_out' = [node_feature |-> g_feat, node_coord |-> g_cloud.coord,
                 edge_src |-> g_graph.edge_src, edge_dst |-> g_graph.edge_dst,
                 edge_length |-> g_graph.edge_length,
                 edge_attr |-> g_graph.edge_attr, degree |-> g_graph.degree,
                 batch |-> g_cloud.batch]
    /\ g_pc' = "returned"
    /\ UNCHANGED <<g_r, g_params, g_cloud, g_graph, g_graph_calls, g_i, g_feat,
                   g_trace>>
    /\ UNCHANGED notG

----------------------------------------------------------------------------
(* block.py: the forward passes of the four blocks as functions of their   *)
(* input, called on a point cloud and on the same cloud moved by a         *)
(* constant                                                                *)

\* RadiusGraphBlock.forward from block k on
RECURSIVE RadiusGraphBlocksFrom(_, _, _, _, _, _)
RadiusGraphBlocksFrom(params, k, node_feature, cloud, graph, r) ==
    IF k > Len(params) THEN node_feature
    ELSE LET input == BlockInput(node_feature, cloud.feat)
             edges == BlockEdges(graph,
                                 RadialOfBlock(k, graph.edge_length, r))
         IN  RadiusGraphBlocksFrom(params, k + 1,
                 EquiformerBlockForward(params[k], input, input, cloud.batch,
                                        edges, NoDrop),
                 cloud, graph, r)

\* RadiusGraphBlock.forward
RadiusGraphBlockForwardValues(params, cloud, r) ==
    [feat |-> RadiusGraphBlocksFrom(params, 1, cloud.feat, cloud,
                                    RadiusGraphGeometry(cloud, r), r),
     coord |-> cloud.coord, batch |-> cloud.batch]

\* output = layer(node_feature, node_coord, batch) of a DownBlock whose
\* Equiformer blocks all hold the parameters p; deterministic, so fps starts
\* at the first node of every batch group
LayerForwardValues(layer, p, cloud) ==
    IF layer.kind = "PoolingBlock"
    THEN PoolingBlockForwardValues(layer, p, cloud,
             CHOOSE st \in FpsStarts(cloud.batch, layer.random_start) : TRUE,
             NoDrop)
    ELSE RadiusGraphBlockForwardValues([k \in 1..layer.n_blocks |-> p], cloud,
                                       ISqrt(layer.radius_sq))

\* DownBlock.forward from layer i on: the list of the outputs
RECURSIVE DownBlockFrom(_, _, _, _)
DownBlockFrom(ls, i, p, cloud) ==
    IF i > Len(ls) THEN <<>>
    ELSE LET output == LayerForwardValues(LayerAt(ls, i), p, cloud)
         IN  <<output>> \o DownBlockFrom(ls, i + 1, p, output)

DownBlockForwardValues(ls, p, cloud) == DownBlockFrom(ls, 1, p, cloud)

\* EdfExtractor.forward, the accumulator after the scales from n on
RECURSIVE ExtractorFrom(_, _, _, _, _, _, _)
ExtractorFrom(params, cutoffs, clouds, coord, batch, n, accumulator) ==
    IF n > Len(cutoffs) THEN accumulator
    ELSE LET pairs == RadiusConnect(clouds[n].coord, clouds[n].batch, coord,
                                    batch, cutoffs[n])
             g == EdgeGeometry(pairs, clouds[n].coord, coord, cutoffs[n])
             out == EquiformerBlockForward(params[n], clouds[n].feat,
                        PreLayerInput(accumulator, Len(coord)), batch, g,
                        NoDrop)
         IN  ExtractorFrom(params, cutoffs, clouds, coord, batch, n + 1,
                           [i \in DOMAIN accumulator |->
                               accumulator[i] + out[i]])

\* EdfExtractor.forward
EdfExtractorForwardValues(params, cutoffs, proj, clouds, coord, batch) ==
    [feat |-> LinearRS(proj.w, proj.b,
                       ExtractorFrom(params, cutoffs, clouds, coord, batch, 1,
                                     ZeroFeatures(Len(coord)))),
     coord |-> coord, batch |-> batch]

\* a point cloud, or a list of coordinates, moved by the constant t
MoveCoords(coord, t) == [i \in DOMAIN coord |-> coord[i] + t]
MoveCloud(cloud, t) == [cloud EXCEPT !.coord = MoveCoords(cloud.coord, t)]

\* the constants the clouds are moved by
Shifts == {0 - 1, 1, 3}

\* the Down Blocks called: one or two scales of radius 1 and 2, pooled to a
\* quarter or not pooled
MovedDownArgs ==
    {a \in ValidDownArgs :
        /\ a.radius_sq = RInt(1)
        /\ a.pool_ratio \in {Rat(1, 4), RInt(1)}
        /\ a.n_scales <= 2
        /\ a.irreps_src = "4x0e" /\ a.num_heads = 2 /\ a.attn_type = "mlp"
        /\ a.fc_neurons = <<2>>}

MovedInputs(block) ==
    IF block = "PoolingBlock"
    THEN {[layer |-> PoolingBlockObj(a), p |-> p, cloud |-> c] :
             a \in {b \in PassArgs : b.drop_path_rate = 0 /\ b.proj_drop = 0},
             p \in BlockParams(FALSE, FALSE), c \in PassClouds}
    ELSE IF block = "RadiusGraphBlock"
    THEN {[r |-> r, params |-> [k \in 1..n |-> p], cloud |-> c] :
             r \in GraphRadii, n \in 1..MaxLayers,
             p \in BlockParams(FALSE, FALSE), c \in PassClouds}
    ELSE IF block = "DownBlock"
    THEN {[layers |-> BuildLayers(a, 0, InitialRadiusSq(a)), p |-> p,
           cloud |-> c] :
             a \in MovedDownArgs, p \in BlockParams(FALSE, FALSE),
             c \in PassClouds}
    ELSE {[params |-> [n \in DOMAIN cut |-> p], cutoffs |-> cut,
           proj |-> [w |-> 1, b |-> 1],
           clouds |-> [n \in DOMAIN cut |-> c],
           coord |-> q, batch |-> [i \in DOMAIN q |-> 0]] :
             cut \in ExtractCutoffs, p \in BlockParams(FALSE, FALSE),
             c \in Clouds({0}),
             q \in UNION {{qc \in [1..k -> Coords] : Increasing(qc)} :
                             k \in 1..MaxQueries}}

InitTVars ==
    /\ t_pc = "start"
    /\ t_block \in {"PoolingBlock", "RadiusGraphBlock", "DownBlock",
                    "EdfExtractor"}
    /\ t_in \in MovedInputs(t_block)
    /\ t_shift \in Shifts
    /\ t_out = <<>>
    /\ t_moved = <<>>

IdleTVars ==
    /\ t_pc = "off"
    /\ t_block = "none"
    /\ t_in = <<>>
    /\ t_shift = 0
    /\ t_out = <<>>
    /\ t_moved = <<>>

\* PoolingBlock.forward on the cloud and on the moved cloud, fps starting at
\* the same nodes
MovedPoolingForward ==
    /\ t_pc = "start"
    /\ t_block = "PoolingBlock"
    /\ \E st \in FpsStarts(t_in.cloud.batch, t_in.layer.random_start) :
          /\ t_out' = <<PoolingBlockForwardValues(t_in.layer, t_in.p,
                            t_in.cloud, st, NoDrop)>>
          /\ t_moved' = <<PoolingBlockForwardValues(t_in.layer, t_in.p,
                              MoveCloud(t_in.cloud, t_shift), st, NoDrop)>>
    /\ t_pc' = "done"
    /\ UNCHANGED <<t_block, t_in, t_shift>>
    /\ UNCHANGED notT

\* RadiusGraphBlock.forward on the cloud and on the moved cloud
MovedRadiusGraphForward ==
    /\ t_pc = "start"
    /\ t_block = "RadiusGraphBlock"
    /\ t_out' = <<RadiusGraphBlockForwardValues(t_in.params, t_in.cloud,
                                                t_in.r)>>
    /\ t_moved' = <<RadiusGraphBlockForwardValues(t_in.params,
                        MoveCloud(t_in.cloud, t_shift), t_in.r)>>
    /\ t_pc' = "done"
    /\ UNCHANGED <<t_block, t_in, t_shift>>
    /\ UNCHANGED notT

\* DownBlock.forward on the cloud and on the moved cloud
MovedDownForward ==
    /\ t_pc = "start"
    /\ t_block = "DownBlock"
    /\ t_out' = DownBlockForwardValues(t_in.layers, t_in.p, t_in.cloud)
    /\ t_moved' = DownBlockForwardValues(t_in.layers, t_in.p,
                                         MoveCloud(t_in.cloud, t_shift))
    /\ t_pc' = "done"
    /\ UNCHANGED <<t_block, t_in, t_shift>>
    /\ UNCHANGED notT

\* EdfExtractor.forward on the clouds and queries and on all of them moved
MovedExtractorForward ==
    /\ t_pc = "start"
    /\ t_block = "EdfExtractor"
    /\ t_out' = <<EdfExtractorForwardValues(t_in.params, t_in.cutoffs,
                      t_in.proj, t_in.clouds, t_in.coord, t_in.batch)>>
    /\ t_moved' = <<EdfExtractorForwardValues(t_in.params, t_in.cutoffs,
                        t_in.proj,
                        [n \in DOMAIN t_in.clouds |->
                            MoveCloud(t_in.clouds[n], t_shift)],
                        MoveCoords(t_in.coord, t_shift), t_in.batch)>>
    /\ t_pc' = "done"
    /\ UNCHANGED <<t_block, t_in, t_shift>>
    /\ UNCHANGED notT

----------------------------------------------------------------------------
(* block.py: EquiformerBlock.forward, step by step, the block called with  *)
(* one node set as source and destination                                  *)

\* a forward that hands drop_path the index of the row in place of
\* batch_dst, so that a draw drops single rows
DropPath_by_row(p, x, batch, dropped) ==
    IF p.drop_path
    THEN GraphDropPath(x, [i \in DOMAIN x |-> i - 1], dropped) ELSE x

\* if self.drop_path is not None: node_features = self.drop_path(...)
DropPath(p, x, batch, dropped) ==
    IF p.drop_path THEN GraphDropPath(x, batch, dropped) ELSE x

\* the batch groups a drop_path call may drop: none without the module or
\* outside training
DropChoices(p, train, batch) ==
    IF train /\ p.drop_path THEN SUBSET BatchGroups(batch) ELSE {{}}

\* the edges of the call
StepEdges(cloud, r) ==
    LET graph == RadiusGraphGeometry(cloud, r)
    IN  BlockEdges(graph, RadialOfBlock(1, graph.edge_length, r))

StepArgs ==
    {[DefaultArgs EXCEPT !.drop_path_rate = dp, !.proj_drop = 0] :
        dp \in DropRates}

InitEVars ==
    /\ e_pc = "start"
    /\ e_args \in StepArgs
    /\ EquiformerBlockInit(e_args) = NoError
    /\ e_p \in BlockParams(HasDropPath(e_args), HasProjDrop(e_args))
    /\ e_train \in BOOLEAN
    /\ e_cloud \in PassClouds
    /\ e_r \in GraphRadii
    /\ e_ga = <<>>
    /\ e_dp1 = {}
    /\ e_out1 = <<>>
    /\ e_ffn = <<>>
    /\ e_dp2 = {}
    /\ e_out = <<>>

IdleEVars ==
    /\ e_pc = "off"
    /\ e_args = DefaultArgs
    /\ e_p = <<>>
    /\ e_train = FALSE
    /\ e_cloud = <<>>
    /\ e_r = 1
    /\ e_ga = <<>>
    /\ e_dp1 = {}
    /\ e_out1 = <<>>
    /\ e_ffn = <<>>
    /\ e_dp2 = {}
    /\ e_out = <<>>

\* self.ga(...), drop_path, node_output = node_input_dst + node_features
EquiformerForwardAttention ==
    /\ e_pc = "start"
    /\ \E dropped \in DropChoices(e_p, e_train, e_cloud.batch) :
        LET ga == EquiformerBlockAttention(e_p, e_cloud.feat, e_cloud.feat,
                                           StepEdges(e_cloud, e_r))
            node_features == DropPath(e_p, ga, e_cloud.batch, dropped)
        IN  /\ e_ga' = ga
            /\ e_dp1' = dropped
            /\ e_out1' = [i \in DOMAIN e_cloud.feat |->
                             e_cloud.feat[i] + node_features[i]]
    /\ e_pc' = "skip"
    /\ UNCHANGED <<e_args, e_p, e_train, e_cloud, e_r, e_ffn, e_dp2, e_out>>
    /\ UNCHANGED notE

\* self.norm_2, self.ffn, drop_path, node_output = node_output + node_features
EquiformerForwardFeedForward ==
    /\ e_pc = "skip"
    /\ \E dropped \in DropChoices(e_p, e_train, e_cloud.batch) :
        LET ffn == FeedForwardNetwork(e_p, LayerNorm(e_p.n2_w, e_p.n2_b, e_out1),
                                      {})
            node_features == DropPath(e_p, ffn, e_cloud.batch, dropped)
        IN  /\ e_ffn' = ffn
            /\ e_dp2' = dropped
            /\ e_out' = [i \in DOMAIN e_out1 |-> e_out1[i] + node_features[i]]
    /\ e_pc' = "returned"
    /\ UNCHANGED <<e_args, e_p, e_train, e_cloud, e_r, e_ga, e_dp1, e_out1>>
    /\ UNCHANGED notE

----------------------------------------------------------------------------
(* Specifications *)

InitRbf ==
    /\ InitRbfVars
    /\ IdleConVars
    /\ IdleFwVars
    /\ IdleXVars
    /\ IdlePVars
    /\ IdleQVars
    /\ IdleGVars
    /\ IdleTVars
    /\ IdleEVars
NextRbf == RbfForward
SpecRbf == InitRbf /\ [][NextRbf]_vars

InitConstruct ==
    /\ InitConVars
    /\ IdleRbfVars
    /\ IdleFwVars
    /\ IdleXVars
    /\ IdlePVars
    /\ IdleQVars
    /\ IdleGVars
    /\ IdleTVars
    /\ IdleEVars
NextConstruct ==
    \/ ConstructEquiformerBlock
    \/ ConstructPoolingBlock
    \/ ConstructRadiusGraphBlock
    \/ ConstructEdfExtractor
    \/ DownBlockInitStart
    \/ DownBlockInitScale
    \/ DownBlockInitReturn
SpecConstruct == InitConstruct /\ [][NextConstruct]_vars

InitDown ==
    /\ BuiltDownBlock
    /\ InitFwVars
    /\ IdleRbfVars
    /\ IdleXVars
    /\ IdlePVars
    /\ IdleQVars
    /\ IdleGVars
    /\ IdleTVars
    /\ IdleEVars
NextDown ==
    \/ DownForwardLayer
    \/ DownForwardReturn
SpecDown == InitDown /\ [][NextDown]_vars

InitExtract ==
    /\ InitXVars
    /\ IdleRbfVars
    /\ IdleConVars
    /\ IdleFwVars
    /\ IdlePVars
    /\ IdleQVars
    /\ IdleGVars
    /\ IdleTVars
    /\ IdleEVars
NextExtract ==
    \/ ExtractScale
    \/ ExtractReturn
SpecExtract == InitExtract /\ [][NextExtract]_vars

InitPasses ==
    /\ InitPVars
    /\ IdleRbfVars
    /\ IdleConVars
    /\ IdleFwVars
    /\ IdleXVars
    /\ IdleQVars
    /\ IdleGVars
    /\ IdleTVars
    /\ IdleEVars
NextPasses == PoolingForwardPass
SpecPasses == InitPasses /\ [][NextPasses]_vars

InitQuery ==
    /\ InitQVars
    /\ IdleRbfVars
    /\ IdleConVars
    /\ IdleFwVars
    /\ IdleXVars
    /\ IdlePVars
    /\ IdleGVars
    /\ IdleTVars
    /\ IdleEVars
NextQuery ==
    \/ QueryGetInitPos
    \/ QueryEncode
SpecQuery == InitQuery /\ [][NextQuery]_vars

InitGraph ==
    /\ InitGVars
    /\ IdleRbfVars
    /\ IdleConVars
    /\ IdleFwVars
    /\ IdleXVars
    /\ IdlePVars
    /\ IdleQVars
    /\ IdleTVars
    /\ IdleEVars
NextGraph ==
    \/ RadiusGraphForwardGraph
    \/ RadiusGraphForwardBlock
    \/ RadiusGraphForwardReturn
SpecGraph == InitGraph /\ [][NextGraph]_vars

InitMoved ==
    /\ InitTVars
    /\ IdleRbfVars
    /\ IdleConVars
    /\ IdleFwVars
    /\ IdleXVars
    /\ IdlePVars
    /\ IdleQVars
    /\ IdleGVars
    /\ IdleEVars
NextMoved ==
    \/ MovedPoolingForward
    \/ MovedRadiusGraphForward
    \/ MovedDownForward
    \/ MovedExtractorForward
SpecMoved == InitMoved /\ [][NextMoved]_vars

InitStep ==
    /\ InitEVars
    /\ IdleRbfVars
    /\ IdleConVars
    /\ IdleFwVars
    /\ IdleXVars
    /\ IdlePVars
    /\ IdleQVars
    /\ IdleGVars
    /\ IdleTVars
NextStep ==
    \/ EquiformerForwardAttention
    \/ EquiformerForwardFeedForward
SpecStep == InitStep /\ [][NextStep]_vars

----------------------------------------------------------------------------
(* C8: with soft_cutoff enabled and the default threshold, every channel  *)
(* of the radial basis output is zero at distance 0, at distance ==       *)
(* cutoff and beyond; the window is 0 for x <= 0 and x >= 1, 1 on         *)
(* [0.2, 0.8], rises monotonically on [0, 0.2] and falls monotonically on *)
(* [0.8, 1].                                                              *)
RbfBoundary ==
    (rbf_pc = "done" /\ soft_cutoff_on) =>
        /\ (dist <= 0 \/ dist >= cutoff) =>
              /\ win = RInt(0)
              /\ \A ch \in DOMAIN rbf_out : rbf_out[ch] = RInt(0)
        /\ (5 * dist >= cutoff /\ 5 * dist <= 4 * cutoff) => win = RInt(1)
        /\ RLe(RInt(0), win) /\ RLe(win, RInt(1))
        /\ (rbf_calls >= 2 /\ 0 <= prev_dist /\ prev_dist <= dist /\ 5 * dist <= cutoff)
              => RLe(prev_win, win)
        /\ (rbf_calls >= 2 /\ 4 * cutoff <= 5 * prev_dist /\ prev_dist <= dist
              /\ dist <= cutoff) => RLe(win, prev_win)

\* a call at 0.8*cutoff (window 1) followed by a call at the cutoff (window 0)
RbfBoundaryWitness ==
    /\ rbf_pc = "done" /\ soft_cutoff_on /\ rbf_calls >= 2
    /\ 5 * prev_dist = 4 * cutoff /\ prev_win = RInt(1)
    /\ dist = cutoff /\ win = RInt(0)
    /\ rbf_out # <<>> /\ \A ch \in DOMAIN rbf_out : rbf_out[ch] = RInt(0)

----------------------------------------------------------------------------
(* Claims about construction, under SpecConstruct *)

DownBuilt == target = "DownBlock" /\ con_pc = "constructed"
Finished == con_pc \in {"constructed", "raised"}

\* the loop of DownBlock.__init__ leaves behind what BuildLayers computes
BuildAgrees ==
    DownBuilt =>
        /\ layers = BuildLayers(args, 0, InitialRadiusSq(args))
        /\ layer_scale = BuildLayerScale(args, 0, InitialRadiusSq(args))
        /\ radius_list_sq = BuildRadiusList(args, 0, InitialRadiusSq(args))
        /\ args \in ValidDownArgs

\* the radius handed to the blocks of level s is radius_list[s]
LevelRadiiAgree ==
    \A i \in 1..Len(layers) :
        layers[i].radius_sq = radius_list_sq[layer_scale[i] + 1]

\* radius_list[0] == init_radius and radius_list[s+1] ==
\* radius_list[s] / sqrt(pool_ratio), on the squares
RadiusRecurrence ==
    /\ Len(radius_list_sq) = args.n_scales
    /\ radius_list_sq[1] = args.radius_sq
    /\ \A s \in 1..(args.n_scales - 1) :
          radius_list_sq[s + 1] = RDiv(radius_list_sq[s], args.pool_ratio)

\* the radius doubles from level s to level s+1 (its square quadruples)
Doubles(s) == radius_list_sq[s + 1] = RMul(RInt(4), radius_list_sq[s])

(* C5, as stated: the radius schedule follows the recurrence, the blocks   *)
(* of level s are built with radius_list[s], and the radius doubles from   *)
(* one level to the next.                                                  *)
RadiusScheduleDoubles ==
    DownBuilt =>
        /\ RadiusRecurrence
        /\ LevelRadiiAgree
        /\ \A s \in 1..(args.n_scales - 1) : Doubles(s)

(* C5, amended: the radius schedule follows the recurrence and the blocks  *)
(* of level s are built with radius_list[s]; the radius grows by the       *)
(* factor 1/sqrt(pool_ratio) per level, which is a doubling exactly when   *)
(* pool_ratio == 0.25.                                                     *)
RadiusSchedule ==
    DownBuilt =>
        /\ RadiusRecurrence
        /\ LevelRadiiAgree
        /\ \A s \in 1..(args.n_scales - 1) :
              Doubles(s) <=> args.pool_ratio = Rat(1, 4)

\* a two-level Down Block with pool_ratio 0.5: the radius grows by sqrt(2)
RadiusScheduleWitness ==
    /\ DownBuilt
    /\ args.n_scales >= 2
    /\ args.pool_ratio = Rat(1, 2)
    /\ radius_list_sq[1] = args.radius_sq
    /\ radius_list_sq[2] = RMul(RInt(2), radius_list_sq[1])
    /\ Len(layers) >= 2

RatioMethodAgree(a) == (a.pool_ratio = RInt(1)) <=> (a.pool_method = NoneVal)

(* C6: a DownBlock is constructed only if (pool_ratio == 1) holds exactly  *)
(* when (pool_method is None); the two mismatches are rejected at          *)
(* construction by DownBlock's own assertion; a constructed DownBlock      *)
(* holds Pooling Blocks if and only if pool_ratio != 1.                    *)
PoolRatioMethodAgree ==
    target = "DownBlock" =>
        /\ con_pc \in {"loop", "constructed"} => RatioMethodAgree(args)
        /\ (con_pc # "start" /\ ~RatioMethodAgree(args)) =>
              /\ con_pc = "raised"
              /\ con_err.err = "AssertionError"
              /\ con_err.by = "DownBlock"
              /\ layers = <<>>
        /\ con_pc = "constructed" =>
              ((\E i \in 1..Len(layers) : layers[i].kind = "PoolingBlock")
                  <=> args.pool_ratio # RInt(1))

\* pool_ratio == 1 with the pooling method 'fps': rejected
PoolRatioMethodAgreeWitness ==
    /\ target = "DownBlock"
    /\ con_pc = "raised"
    /\ args.pool_ratio = RInt(1)
    /\ args.pool_method = "fps"
    /\ con_err = Raise("AssertionError", "pool_method is None", "DownBlock")

\* everything but fc_neurons is a configuration the block accepts
OtherwiseValid ==
    /\ args.irreps_src = args.irreps_dst
    /\ EquiformerBlockInit(args) = NoError
    /\ args.pool_method = "fps"
    /\ args.n_layers >= 1

FewerThanOneChannel == Len(args.fc_neurons) >= 1 /\ args.fc_neurons[1] < 1

(* C7, as stated: a Pooling or Radius-Graph Block with fc_neurons[0] < 1   *)
(* is rejected at construction by the block's own configuration check.     *)
RadialChannelsChecked ==
    (target \in {"PoolingBlock", "RadiusGraphBlock"} /\ Finished
                /\ OtherwiseValid /\ FewerThanOneChannel) =>
        /\ con_pc = "raised"
        /\ con_err.by = target

(* C7, amended: the block's own configuration check rejects an empty       *)
(* fc_neurons list (assert len(fc_neurons) >= 1) and nothing else of       *)
(* fc_neurons: with fc_neurons[0] < 1 the block's own checks pass, and an  *)
(* error, if any, is raised by the radial basis layer it constructs.       *)
RadialListChecked ==
    (target \in {"PoolingBlock", "RadiusGraphBlock"} /\ Finished
                /\ OtherwiseValid) =>
        /\ Len(args.fc_neurons) = 0 =>
              con_err = Raise("AssertionError", "len(fc_neurons) >= 1", target)
        /\ Len(args.fc_neurons) >= 1 => con_err.by # target
        /\ (FewerThanOneChannel /\ con_pc = "raised") =>
              con_err.by = "GaussianRadialBasisLayer"

\* fc_neurons == [0] passes the Pooling Block's own checks
RadialListCheckedWitness ==
    /\ target = "PoolingBlock"
    /\ Finished
    /\ OtherwiseValid
    /\ args.fc_neurons = <<0>>
    /\ con_err.by = "GaussianRadialBasisLayer"

HeadsAgree == args.num_heads * HeadDim = IrrepsDim(args.irreps_dst)

(* C9: an Equiformer Block with an attention type that is not a known one  *)
(* fails at construction, with ValueError 'Unknown attention type' (for    *)
(* arguments that pass the assertion on the head dimensions, which comes   *)
(* first); a block is constructed only for the implemented type, 'mlp'.    *)
UnknownAttnRejected ==
    /\ (target = "EquiformerBlock" /\ Finished) =>
          /\ args.attn_type \notin KnownAttnTypes => con_pc = "raised"
          /\ (args.attn_type \notin KnownAttnTypes /\ HeadsAgree) =>
                con_err = Raise("ValueError", "Unknown attention type",
                                "EquiformerBlock")
          /\ con_pc = "constructed" =>
                /\ args.attn_type = "mlp"
                /\ con_obj.attn_type = "mlp"
    /\ con_pc = "constructed" => args.attn_type = "mlp"

UnknownAttnRejectedWitness ==
    /\ target = "EquiformerBlock"
    /\ con_pc = "raised"
    /\ args.attn_type = "softmax"
    /\ con_err = Raise("ValueError", "Unknown attention type", "EquiformerBlock")

(* C10: a Pooling Block whose source and destination signatures differ     *)
(* fails at construction (no block exists whose forward could run); every  *)
(* Pooling Block a Down Block builds has equal signatures.                 *)
PoolingIrrepsEqual ==
    /\ (target = "PoolingBlock" /\ Finished) =>
          /\ args.irreps_src # args.irreps_dst =>
                /\ con_pc = "raised"
                /\ con_err = Raise("NotImplementedError", "", "PoolingBlock")
                /\ con_obj = NoObj
          /\ con_pc = "constructed" => con_obj.irreps_src = con_obj.irreps_dst
    /\ target = "DownBlock" =>
          \A i \in 1..Len(layers) :
              layers[i].kind = "PoolingBlock" =>
                  layers[i].irreps_src = layers[i].irreps_dst

PoolingIrrepsEqualWitness ==
    /\ target = "PoolingBlock"
    /\ con_pc = "raised"
    /\ args.irreps_src = "4x0e"
    /\ args.irreps_dst = "2x0e+2x1e"
    /\ con_err.err = "NotImplementedError"

----------------------------------------------------------------------------
(* Claims about DownBlock.forward, under SpecDown *)

Returned == fw_pc = "returned"

\* the node counts a hierarchy level ends with: those of the last snapshot
\* a layer of scale s appended
LevelCounts(s) ==
    LET idx == {i \in 1..Len(outputs) : layer_scale[i] = s}
        last == CHOOSE i \in idx : \A j \in idx : j <= i
    IN  outputs[last].counts

Total(counts) == IF Len(counts) = 2 THEN counts[1] + counts[2] ELSE counts[1]

\* 100 nodes in 2 batches of 50 through a 3-scale Down Block with
\* pool_ratio 0.5
Scenario ==
    /\ Returned
    /\ fw_input = <<50, 50>>
    /\ args.n_scales = 3
    /\ args.pool_ratio = Rat(1, 2)
    /\ args.pool_method = "fps"

(* C2, as stated: in the scenario the hierarchy levels have sizes          *)
(* [100, 50, 25], split 50/25/13 and 50/25/12 (or symmetric) across the    *)
(* two batches.                                                            *)
ScenarioSizesAsStated ==
    Scenario =>
        /\ LevelCounts(0) = <<50, 50>>
        /\ LevelCounts(1) = <<25, 25>>
        /\ LevelCounts(2) \in {<<13, 12>>, <<12, 13>>}
        /\ Total(LevelCounts(0)) = 100
        /\ Total(LevelCounts(1)) = 50
        /\ Total(LevelCounts(2)) = 25

(* C2, amended: in the scenario every level pools, the first included, and *)
(* every batch group is rounded up on its own: the levels have sizes       *)
(* [50, 26, 14], split 25/13/7 in each of the two batches; every snapshot  *)
(* of a level has that level's counts.                                     *)
ScenarioSizes ==
    Scenario =>
        /\ LevelCounts(0) = <<25, 25>>
        /\ LevelCounts(1) = <<13, 13>>
        /\ LevelCounts(2) = <<7, 7>>
        /\ \A i \in 1..Len(outputs) :
              outputs[i].counts = LevelCounts(layer_scale[i])
        /\ \A b \in 1..2 : \A s \in 0..2 :
              LevelCounts(s)[b] =
                  FpsCount(args.pool_ratio,
                           IF s = 0 THEN fw_input[b] ELSE LevelCounts(s - 1)[b])

ScenarioSizesWitness ==
    /\ Scenario
    /\ Len(outputs) = 3
    /\ outputs[1].counts = <<25, 25>>
    /\ outputs[2].counts = <<13, 13>>
    /\ outputs[3].counts = <<7, 7>>

\* the layers DownBlock.__init__ appends per scale
LayersPerScale(a) ==
    IF a.pool_method # NoneVal /\ a.n_layers >= 2 THEN 2 ELSE 1

(* C3, as stated: DownBlock.forward returns exactly n_scales snapshots.    *)
SnapshotPerLevel ==
    Returned => Len(outputs) = args.n_scales

(* C3, amended: DownBlock.forward returns one snapshot per layer of        *)
(* self.layers, in order: n_scales entries when pooling is skipped or      *)
(* n_layers_per_scale == 1, and 2 * n_scales entries (a Pooling Block's    *)
(* and a Radius-Graph Block's per level) when a pooling method is set and  *)
(* n_layers_per_scale >= 2.                                                *)
SnapshotPerLayer ==
    Returned =>
        /\ Len(outputs) = Len(layers)
        /\ Len(outputs) = args.n_scales * LayersPerScale(args)
        /\ \A i \in 1..Len(outputs) : outputs[i].kind = layers[i].kind
        /\ (Len(outputs) = args.n_scales)
              <=> (args.pool_method = NoneVal \/ args.n_layers = 1)

SnapshotPerLayerWitness ==
    /\ Returned
    /\ args.n_scales = 3
    /\ args.pool_method = "fps"
    /\ args.n_layers = 2
    /\ Len(outputs) = 6
    /\ outputs[1].kind = "PoolingBlock"
    /\ outputs[2].kind = "RadiusGraphBlock"

----------------------------------------------------------------------------
(* EdfExtractor.forward: x_edges, attn and contrib are those of the scale  *)
(* the loop processed last, scale x_n - 1.                                 *)

ScaleProcessed == x_pc = "loop" /\ x_n > 1
Disconnected(j) == \A e \in DOMAIN x_edges : x_edges[e][2] # j
Connected(j) == ~Disconnected(j)

\* C1 as stated: a query with no incoming edge at scale n receives the zero
\* vector from scale n's Equiformer block.
DisconnectedAddsZero ==
    ScaleProcessed =>
        \A j \in DOMAIN query_coord : Disconnected(j) => contrib[j] = 0

\* C1 (amended): in evaluation mode a query with no incoming edge at scale n
\* receives zero from the block's attention, and what the block adds to its
\* accumulator is the feed-forward network's value on the normalised zero
\* input, w2 * act(w1 * norm_bias + b1) + b2: a constant of the scale's
\* parameters, the same for every such query whatever the scale's nodes,
\* and zero when these biases are zero.
DisconnectedAddsBias ==
    ScaleProcessed =>
        LET p == x_params[x_n - 1]
        IN  \A j \in DOMAIN query_coord :
                Disconnected(j) =>
                    /\ attn[j] = 0
                    /\ contrib[j] = p.f_w2 * Act(p.f_w1 * p.n2_b + p.f_b1) + p.f_b2
                    /\ (p.n2_b = 0 /\ p.f_b1 = 0 /\ p.f_b2 = 0) => contrib[j] = 0

\* a scale that reaches one query and not the other, and adds a nonzero
\* value to the one it does not reach
DisconnectedAddsBiasWitness ==
    /\ ScaleProcessed
    /\ \E j, k \in DOMAIN query_coord :
          /\ Disconnected(j)
          /\ contrib[j] # 0
          /\ Connected(k)
          /\ attn[k] # 0

----------------------------------------------------------------------------
(* Two forward passes of one PoolingBlock on one input. *)

TwoPasses == p_pc = "ready" /\ Len(p_outs) = 2
StartsAtFirst(st) ==
    \A b \in DOMAIN st : st[b] = First(Members(p_cloud.batch, b))

\* C4 as stated: with the deterministic flag set, two forward passes of the
\* same constructed model on the same input yield the same output.
DeterministicReproducible ==
    (TwoPasses /\ p_args.deterministic) => p_outs[1] = p_outs[2]

\* C4 (amended): with the deterministic flag set, farthest-point sampling
\* starts from index 0 of each batch group in every pass, and in evaluation
\* mode two forward passes of the same constructed model on the same input
\* yield the same output; the flag does not reach dropout or stochastic
\* depth, which in training mode draw afresh in every pass.
DeterministicFpsStart ==
    (p_pc = "ready" /\ p_args.deterministic) =>
        /\ \A k \in DOMAIN p_starts : StartsAtFirst(p_starts[k])
        /\ (TwoPasses /\ ~training) => p_outs[1] = p_outs[2]

\* two passes in evaluation mode of a deterministic block that holds both
\* drop modules, on a batch group whose nodes differ, so that another start
\* index would have sampled another node
DeterministicFpsStartWitness ==
    /\ TwoPasses
    /\ p_args.deterministic
    /\ ~training
    /\ p_params.drop_path /\ p_params.proj_drop
    /\ p_outs[1] = p_outs[2]
    /\ \E i, j \in DOMAIN p_cloud.batch :
          /\ i < j
          /\ p_cloud.batch[i] = p_cloud.batch[j]
          /\ p_cloud.feat[i] # p_cloud.feat[j]

----------------------------------------------------------------------------
(* C11: RadiusGraphBlock with n_layers < 1, DownBlock with                 *)
(* n_layers_per_scale < 1 and EdfExtractor with n_layers < 1 are rejected  *)
(* at construction: __init__ raises, no object is built.                   *)
TooFewLayersRejected ==
    (target \in {"RadiusGraphBlock", "DownBlock", "EdfExtractor"}
        /\ args.n_layers < 1) =>
        /\ con_pc # "constructed"
        /\ con_obj = NoObj
        /\ layers = <<>>
        /\ Finished => (con_pc = "raised" /\ con_err.err = "AssertionError")

\* an EdfExtractor whose configuration is fine but for n_layers == 0
TooFewLayersRejectedWitness ==
    /\ target = "EdfExtractor"
    /\ args.n_layers = 0
    /\ ListsAgree(args)
    /\ PreLayersError(args, 1) = NoError
    /\ con_pc = "raised"
    /\ con_err = Raise("AssertionError", "n_layers >= 1", "EdfExtractor")

----------------------------------------------------------------------------
ExtractorBuilt == target = "EdfExtractor" /\ con_pc = "constructed"

\* C15: for every scale n the extractor's Radius Connect is built with the
\* cutoff cutoffs[n] and the offset offsets[n].
ConnectUsesOffset ==
    ExtractorBuilt =>
        \A n \in 1..con_obj.n_scales :
            /\ con_obj.pre_connect[n].r = args.cutoffs[n]
            /\ con_obj.pre_connect[n].offset = Offset(args.offsets[n])

----------------------------------------------------------------------------
(* The Equiformer block of the PoolingBlock, on the inputs of pass k. *)

PassPool(k) == FpsPool(p_block, p_cloud, p_starts[k])
PassGeometry(k) ==
    EdgeGeometry(PassPool(k).pairs, p_cloud.coord, PassPool(k).coord,
                 ISqrt(p_block.radius_sq))

\* C14: for every edge e, message[e] = linear_src(norm_1_src(source))
\* [edge_src[e]] + linear_dst(norm_1_dst(destination))[edge_dst[e]].
MessageFromNormalized ==
    \A k \in DOMAIN p_starts :
        LET p == p_params
            g == PassGeometry(k)
            from_src == LinearRS(p.w_src, 0,
                                 LayerNorm(p.n1_w, p.n1_b, p_cloud.feat))
            from_dst == LinearRS(p.w_dst, p.b_dst,
                                 LayerNorm(p.n1_w, p.n1_b, PassPool(k).feat))
        IN  \A e \in DOMAIN g.edge_src :
                EquiformerBlockMessage(p, p_cloud.feat, PassPool(k).feat, g)[e]
                    = from_src[g.edge_src[e]] + from_dst[g.edge_dst[e]]

----------------------------------------------------------------------------
\* C16: the index given to query q at scale s decodes, by batch = index //
\* n_scales and scale = index % n_scales, to q's own batch id and to s.
QueryIndexDecodes ==
    q_pc = "encoded" =>
        \A s1 \in 1..q_n_scales : \A q \in DOMAIN q_batch :
            /\ q_index[s1][q] \div q_n_scales = q_batch[q]
            /\ q_index[s1][q] % q_n_scales = s1 - 1

----------------------------------------------------------------------------
(* EdfExtractor.forward as a sum over the scales. *)

\* Block_n(source = scale n's nodes, destination = all-zero features)
BlockOfScale(n) ==
    LET cloud == x_clouds[n]
        pairs == RadiusConnect(cloud.coord, cloud.batch, query_coord,
                               query_batch, x_cutoffs[n])
        g == EdgeGeometry(pairs, cloud.coord, query_coord, x_cutoffs[n])
    IN  EquiformerBlockForward(x_params[n], cloud.feat,
                               ZeroFeatures(Len(query_coord)), query_batch, g,
                               NoDrop)

\* the sum of the first k scales of an order, from zero
RECURSIVE SumInOrder(_, _)
SumInOrder(order, k) ==
    IF k = 0 THEN ZeroFeatures(Len(query_coord))
    ELSE [i \in DOMAIN query_coord |->
             SumInOrder(order, k - 1)[i] + BlockOfScale(order[k])[i]]

Orders(n) ==
    {f \in [1..n -> 1..n] : \A i, j \in 1..n : i # j => f[i] # f[j]}

\* C17: the accumulator starts at zero, every scale's block receives an
\* all-zero destination input whatever earlier scales accumulated, the
\* contributions are summed (so the order of the scales does not matter),
\* and the result is the one projection of that sum.
ExtractorIsSumOfScales ==
    /\ x_pc = "loop" =>
          /\ x_n = 1 => acc = ZeroFeatures(Len(query_coord))
          /\ x_n > 1 => contrib = BlockOfScale(x_n - 1)
          /\ \A order \in Orders(x_n - 1) : acc = SumInOrder(order, x_n - 1)
    /\ x_pc = "returned" =>
          \A order \in Orders(x_scales) :
              x_out = LinearRS(x_proj.w, x_proj.b, SumInOrder(order, x_scales))

\* two scales that add different nonzero values to a query
ExtractorIsSumOfScalesWitness ==
    /\ x_pc = "returned"
    /\ x_scales = 2
    /\ \E j \in DOMAIN query_coord :
          /\ BlockOfScale(1)[j] # 0
          /\ BlockOfScale(2)[j] # 0
          /\ BlockOfScale(1)[j] # BlockOfScale(2)[j]
          /\ acc[j] = BlockOfScale(1)[j] + BlockOfScale(2)[j]

----------------------------------------------------------------------------
(* The levels of a constructed Down Block. *)

\* the positions in self.layers of the layers of level s, in order
LevelPositions(s) == {i \in DOMAIN layers : layer_scale[i] = s}
LevelBlocks(s) ==
    LET Count[i \in 0..Len(layers)] ==
            IF i = 0 THEN 0
            ELSE Count[i - 1] + (IF layer_scale[i] = s THEN layers[i].n_blocks
                                 ELSE 0)
    IN  Count[Len(layers)]
Kinds(s, kind) == {i \in LevelPositions(s) : layers[i].kind = kind}

\* C18: with a pooling method a level is one Pooling Block followed by a
\* Radius-Graph Block of n_layers_per_scale - 1 Equiformer blocks (omitted
\* when that is 0); without pooling it is a Radius-Graph Block of
\* n_layers_per_scale Equiformer blocks. Either way the level holds
\* n_layers_per_scale Equiformer blocks and the Pooling Block comes first.
LevelStructure ==
    DownBuilt =>
        \A s \in 0..(args.n_scales - 1) :
            /\ LevelBlocks(s) = args.n_layers
            /\ Cardinality(Kinds(s, "PoolingBlock"))
                  = (IF args.pool_method # NoneVal THEN 1 ELSE 0)
            /\ Cardinality(Kinds(s, "RadiusGraphBlock"))
                  = (IF args.pool_method # NoneVal /\ args.n_layers = 1
                     THEN 0 ELSE 1)
            /\ \A i \in Kinds(s, "RadiusGraphBlock") :
                  layers[i].n_blocks
                      = args.n_layers - (IF args.pool_method # NoneVal
                                         THEN 1 ELSE 0)
            /\ \A i \in Kinds(s, "PoolingBlock") :
                  /\ layers[i].n_blocks = 1
                  /\ \A j \in Kinds(s, "RadiusGraphBlock") : i < j
            /\ \A i \in LevelPositions(s) : \A j \in LevelPositions(s + 1) :
                  i < j

\* a pooled Down Block of several levels with a Radius-Graph Block in each
LevelStructureWitness ==
    /\ DownBuilt
    /\ args.n_scales >= 2
    /\ args.pool_method = "fps"
    /\ args.n_layers = 2
    /\ Len(layers) = 2 * args.n_scales
    /\ layers[1].kind = "PoolingBlock"
    /\ layers[2].kind = "RadiusGraphBlock"
    /\ layers[2].n_blocks = 1

----------------------------------------------------------------------------
(* The order of the layers in DownBlock.forward. *)

\* what layer i of a running forward call was given
InputOfLayer(i) == IF i = 1 THEN fw_input ELSE outputs[i - 1].counts

\* C19: DownBlock.forward runs the layers in construction order, the first on
\* the call's input and each later one on the output of the layer before it,
\* and appends every output in that order; along the list no batch group
\* grows, and a group changes size only at a Pooling Block entry.
LayersRunInOrder ==
    fw_pc \in {"loop", "returned"} =>
        /\ Len(outputs) = fw_i - 1
        /\ Len(outputs) <= Len(layers)
        /\ fw_pc = "returned" => Len(outputs) = Len(layers)
        /\ \A i \in DOMAIN outputs :
              /\ outputs[i] = LayerForward(layers[i], InputOfLayer(i))
              /\ outputs[i].kind = layers[i].kind
              /\ DOMAIN outputs[i].counts = DOMAIN fw_input
              /\ \A b \in DOMAIN fw_input :
                    outputs[i].counts[b] <= InputOfLayer(i)[b]
              /\ outputs[i].counts # InputOfLayer(i)
                    => outputs[i].kind = "PoolingBlock"
        /\ node_count = InputOfLayer(Len(outputs) + 1)

\* a returned call over four layers in which a Pooling Block shrank a group
\* and the Radius-Graph Block after it left the count alone
LayersRunInOrderWitness ==
    /\ fw_pc = "returned"
    /\ Len(outputs) = 4
    /\ outputs[1].kind = "PoolingBlock"
    /\ outputs[1].counts # fw_input
    /\ outputs[2].kind = "RadiusGraphBlock"
    /\ outputs[2].counts = outputs[1].counts
    /\ outputs[3].kind = "PoolingBlock"
    /\ outputs[3].counts # outputs[2].counts

----------------------------------------------------------------------------
(* The stack of Equiformer blocks of a Radius-Graph block. *)

\* the features block i of the running call has to be given
FeatureBefore(i) == IF i = 1 THEN g_cloud.feat ELSE g_trace[i - 1].out

\* C20: RadiusGraphBlock.forward computes the radius graph, the edge
\* displacements, their spherical harmonics and the edge lengths once from
\* the call's coordinates; every one of the n_layers blocks runs on these
\* edges and edge attributes, takes the output of the block before it (the
\* first one the call's features) as source and as destination input, and
\* gets the edge scalars of its own radial layer on the same edge lengths;
\* the call returns coordinates and batch as given and as many nodes.
GraphComputedOnce ==
    g_pc \in {"loop", "returned"} =>
        /\ g_graph_calls = 1
        /\ g_graph = RadiusGraphGeometry(g_cloud, g_r)
        /\ Len(g_trace) = g_i - 1
        /\ g_pc = "returned" => Len(g_trace) = Len(g_params)
        /\ \A i \in DOMAIN g_trace :
              /\ g_trace[i].block = i
              /\ g_trace[i].node_input_src = FeatureBefore(i)
              /\ g_trace[i].node_input_dst = FeatureBefore(i)
              /\ g_trace[i].edge_src = g_graph.edge_src
              /\ g_trace[i].edge_dst = g_graph.edge_dst
              /\ g_trace[i].edge_attr = g_graph.edge_attr
              /\ g_trace[i].edge_length = g_graph.edge_length
              /\ g_trace[i].edge_scalars
                    = RadialOfBlock(i, g_graph.edge_length, g_r)
              /\ Len(g_trace[i].out) = Len(g_cloud.feat)
        /\ g_pc = "returned" =>
              /\ g_out.node_feature = g_trace[Len(g_params)].out
              /\ g_out.node_coord = g_cloud.coord
              /\ g_out.batch = g_cloud.batch
              /\ Len(g_out.node_feature) = Len(g_cloud.coord)
              /\ g_out.edge_src = g_graph.edge_src
              /\ g_out.edge_dst = g_graph.edge_dst

\* a returned call of a block of two layers on a cloud with edges, in which
\* the first layer changed the features and the two radial layers gave
\* different edge scalars
GraphComputedOnceWitness ==
    /\ g_pc = "returned"
    /\ Len(g_trace) = 2
    /\ Len(g_graph.edge_src) >= 2
    /\ g_trace[1].out # g_cloud.feat
    /\ g_trace[2].node_input_src = g_trace[1].out
    /\ g_trace[2].edge_scalars # g_trace[1].edge_scalars
    /\ g_trace[2].edge_src = g_trace[1].edge_src

----------------------------------------------------------------------------
(* Moving the input. *)

\* C12: adding one constant to every input coordinate (nodes and queries)
\* leaves the output features of the Pooling Block, the Radius-Graph Block,
\* the Down Block and the Field Extractor as they were; the output nodes are
\* the same nodes, moved by the constant.
TranslationInvariant ==
    t_pc = "done" =>
        /\ Len(t_moved) = Len(t_out)
        /\ \A i \in DOMAIN t_out :
              /\ t_moved[i].feat = t_out[i].feat
              /\ t_moved[i].batch = t_out[i].batch
              /\ t_moved[i].coord = MoveCoords(t_out[i].coord, t_shift)

\* a Down Block of two layers called on a cloud of two nodes of one batch
\* group with an edge between them, whose first layer changed the features
TranslationInvariantWitness ==
    /\ t_pc = "done"
    /\ t_block = "DownBlock"
    /\ t_shift # 0
    /\ Len(t_out) = 2
    /\ Len(t_in.cloud.coord) = 2
    /\ t_in.cloud.batch = <<0, 0>>
    /\ t_in.cloud.feat = <<0, 2>>
    /\ t_out[1].feat # t_in.cloud.feat
    /\ t_out[2].feat # t_out[1].feat

----------------------------------------------------------------------------
(* Stochastic depth in an Equiformer block. *)

\* C21: with drop_path_rate > 0 a forward call applies stochastic depth to
\* the attention output and to the feed-forward output, each before its
\* residual add and by the batch index of the destination nodes: every
\* destination node of a dropped batch group keeps its residual input as it
\* was.  With drop_path_rate == 0 nothing is dropped: both contributions are
\* added in full.
StochasticDepthByBatch ==
    e_pc \in {"skip", "returned"} =>
        /\ e_dp1 \subseteq BatchGroups(e_cloud.batch)
        /\ \A i \in DOMAIN e_cloud.feat :
              e_cloud.batch[i] \in e_dp1 => e_out1[i] = e_cloud.feat[i]
        /\ e_pc = "returned" =>
              /\ e_dp2 \subseteq BatchGroups(e_cloud.batch)
              /\ \A i \in DOMAIN e_cloud.feat :
                    e_cloud.batch[i] \in e_dp2 => e_out[i] = e_out1[i]
              /\ e_out = EquiformerBlockForward(e_p, e_cloud.feat, e_cloud.feat,
                             e_cloud.batch, StepEdges(e_cloud, e_r),
                             [dp1 |-> e_dp1, dp2 |-> e_dp2, fd |-> {}])
        /\ e_args.drop_path_rate = 0 =>
              /\ e_dp1 = {}
              /\ e_out1 = [i \in DOMAIN e_cloud.feat |->
                              e_cloud.feat[i] + e_ga[i]]
              /\ e_pc = "returned" =>
                    /\ e_dp2 = {}
                    /\ e_out = [i \in DOMAIN e_out1 |-> e_out1[i] + e_ffn[i]]

\* a training call with drop_path_rate > 0 on two nodes of one batch group
\* that both received attention: the group's attention contribution was
\* dropped, its feed-forward contribution was not
StochasticDepthByBatchWitness ==
    /\ e_pc = "returned"
    /\ e_args.drop_path_rate > 0
    /\ e_train
    /\ e_cloud.batch = <<0, 0>>
    /\ e_ga[1] # 0
    /\ e_ga[2] # 0
    /\ e_dp1 = {0}
    /\ e_out1 = e_cloud.feat
    /\ e_dp2 = {}
    /\ e_out[1] # e_out1[1]
    /\ e_out[2] # e_out1[2]

=============================================================================
